---- MODULE Spec2Model ----
(***************************************************************************)
(* A model of the atools navigation database compiler:                     *)
(*   - fs/bgl/bglfile.cpp, fs/bgl/header.cpp : the BGL file reader         *)
(*   - fs/navdatabase.cpp                    : the pipeline driver         *)
(*   - fs/db/nav/ilswriter.cpp               : the ILS writer              *)
(* Each part has its own specification (SpecBgl, SpecNav, SpecIls); the    *)
(* variables of the other parts stay at their initial values.              *)
(***************************************************************************)
EXTENDS Integers, Sequences, FiniteSets, TLC

VARIABLES
  \* ---- BglFile (fs/bgl/bglfile.cpp) ----
  bpc,                \* where readFile is: idle, sections, subsections, boundaries, boundaryScan, records, done, thrown
  fileNo,             \* number of readFile calls so far
  opts,               \* NavDatabaseOptions and scenery area flags seen by the reader
  fileSize,           \* BglFile::size / BinaryStream::getFileSize()
  pos,                \* BinaryStream::tellg()
  header,             \* BglFile::header
  secRead,            \* loop counter i of the first loop of readSections
  sections,           \* BglFile::sections
  subsections,        \* BglFile::subsections
  subIdx,             \* index of the subsection readRecords is in (0: none yet)
  recIdx,             \* loop counter i of the record loop of readRecords
  airports,           \* BglFile::airports (idents, in list order)
  collected,          \* sizes of the other record lists of BglFile
  airportIdentCount,  \* the local QHash of readRecords
  lastRec,            \* the record dispatched last: start, declared size, where its parser stopped
  exception,          \* the exception readFile ended with, or "none"
  eofRead,            \* the kind of read that was attempted past the end of the file, or "none"
  declared,           \* records declared by the subsections read so far (bounds the input)
  secIdx,             \* sections the running loop over BglFile::sections has finished
  subRead,            \* loop counter i of the subsection loop of readSections
  file,               \* the file given to the running readFile call: size, magic numbers, section count
  scanStart,          \* the offset table readBoundaryRecords has just read, until handleBoundaries goes on
  lastBoundary,       \* the record handleBoundaries handled last: type, start, size, added, warned
  origin,             \* per list of the collector: the readFile calls whose objects it holds
  hadContent,         \* the collector held objects when the running readFile call began
  walked,             \* per subsection readRecords has entered: the offset sought and the records dispatched
  \* ---- NavDatabase (fs/navdatabase.cpp) ----
  navPhase,           \* where create is: idle, running, internalReturned, returned, crashed
  npc,                \* index of the next step of createInternal
  navOpts,            \* NavDatabaseOptions seen by the driver, and the number of scenery areas to load
  aborted,            \* NavDatabase::aborted
  abortSignalled,     \* some handler call or load step of this run has returned the aborted signal
  log,                \* the handler calls, scripts, load steps and report steps executed, in order
  pending,            \* changes of the open transaction of db
  committed,          \* changes of this run that are committed to db
  dbAutocommit,       \* autocommit mode of db
  rollbacks,          \* number of db->rollback() calls
  finishCalled,       \* progress.reportFinish() was called
  sceneryErrors,      \* errors->sceneryErrors: per bucket the area and whether it holds an error or a message
  \* ---- IlsWriter (fs/db/nav/ilswriter.cpp) ----
  ilsOpts,            \* simulator type and incomplete mode seen by the writer
  ilsCalls,           \* number of writeObject calls so far
  ilsNextId,          \* the id counter of the writer
  ilsRows,            \* the rows written by executeStatement, in order
  ilsLast,            \* the last writeObject call: its input, the runway name bound, written or not
  \* ---- Parking (fs/bgl/ap/parking.cpp) ----
  pkPc,               \* input: nothing called yet; done: the constructor or a string function has returned
  pkIn,               \* the flags word and structure type given to the constructor, or the enumerator given to a string function
  parking,            \* the members the constructor has set
  pkOps,              \* the calls the constructor has made on the stream, in order
  pkStr,              \* the string a string function has returned
  \* ---- XpFixReader, XpAirportMsaReader (fs/xp) ----
  loader,             \* what createInternal has created for loading: the DataWriter (with its IlsWriter) or the XpDataCompiler (with its readers)
  curFixId,           \* XpFixReader::curFixId
  waypointRows,       \* the rows XpFixReader has inserted into waypoint, in order
  curMsaId,           \* XpAirportMsaReader::curMsaId
  msaRows,            \* the rows XpAirportMsaReader has inserted into airport_msa, in order
  xpFixLines,         \* lines given to XpFixReader::read so far
  xpMsaLines,         \* lines given to XpAirportMsaReader::read so far
  xpFile,             \* the reader of the file the XpDataCompiler is reading
  moraLines,          \* XpMoraReader::lines, as the numbers of the lines kept
  xpMoraLines,        \* lines given to XpMoraReader::read so far
  xpLast,             \* the last line read: its reader, what happened to it, its warnings
  \* ---- fs/util/fsutil.cpp, NavDatabase::readSceneryConfig ----
  utilArg,            \* the function called and its arguments
  utilRes,            \* what the call has returned
  \* ---- fs/sc/simconnectdata.cpp ----
  magicNumber,        \* SimConnectData::magicNumber
  packetSize,         \* SimConnectData::packetSize
  version,            \* SimConnectData::version
  status,             \* SimConnectData::status
  bytesAvailable,     \* ioDevice->bytesAvailable()
  scCalls,            \* calls of read so far
  scLast              \* the last call of read: its result, whether it tested a magic number

bglVars == <<bpc, fileNo, opts, fileSize, pos, header, secRead, sections, subsections,
             subIdx, recIdx, airports, collected, airportIdentCount, lastRec,
             exception, eofRead, declared, secIdx, subRead, file, scanStart, lastBoundary,
             walked, origin, hadContent>>

navVars == <<navPhase, npc, navOpts, aborted, abortSignalled, log, pending, committed,
             dbAutocommit, rollbacks, finishCalled, sceneryErrors>>

ilsVars == <<ilsOpts, ilsCalls, ilsNextId, ilsRows, ilsLast>>

pkVars == <<pkPc, pkIn, parking, pkOps, pkStr>>

xpVars == <<loader, curFixId, waypointRows, curMsaId, msaRows, xpFixLines, xpMsaLines, xpFile,
           moraLines, xpMoraLines, xpLast>>

utilVars == <<utilArg, utilRes>>

scVars == <<magicNumber, packetSize, version, status, bytesAvailable, scCalls, scLast>>

vars == <<bglVars, navVars, ilsVars, pkVars, xpVars, utilVars, scVars>>

\* ------------------------------------------------------------------------
\* Bounds of the model
MaxFiles == 2
MaxRecords == 5
MaxBoundaries == 2

\* ------------------------------------------------------------------------
\* Constants of the program
HEADER_SIZE == 56
MAGIC_NUMBER1 == 428999169
MAGIC_NUMBER2 == 134551555
SECTION_SIZE == 20
SUBSECTION_SIZE == 16
RECORD_HEADER_SIZE == 6
\* bytes read by the Header constructor before it tests the magic numbers
HEADER_MAGIC_END == 20
\* airportIdentCount value above which readRecords throws
DUPLICATE_LIMIT == 3
\* std::numeric_limits<unsigned int>::max(), as far as 32-bit signed integers reach
UINT_MAX == 2147483647

\* ------------------------------------------------------------------------
\* Input sets
FileSizes == {40, 56, 76, 200}
Magics1 == {MAGIC_NUMBER1, 0}
Magics2 == {MAGIC_NUMBER2, 0}
SectionCounts == {0, 1, 2}
SubsectionCounts == {0, 1}
RecordCounts == {0, 2, 3}
SectionTypes == {"AIRPORT", "AIRPORT_ALT", "NAME_LIST", "P3D_TACAN", "BOUNDARY", "GEOPOL", "UNKNOWN"}
SubsectionOffsets == {96}
RecordOffsets == {120}
RecordSizes == {16, 200}
ParserConsumed == {12}
Idents == {"ZZZZ", "KSEA"}
BoundarySizes == {0, 16, 60}
BoundaryRecordTypes == {"BOUNDARY", "BOUNDARY_MSFS2024", "GEOPOL", "OTHER"}
BoundaryTableExample ==
  <<[offset1 |-> 768, offset2 |-> 1024, treeFlag |-> 1],
    [offset1 |-> 512, offset2 |-> 640, treeFlag |-> 1]>>
BoundaryTables ==
  { <<[offset1 |-> 150, offset2 |-> 180, treeFlag |-> 1]>>,
    <<[offset1 |-> 190, offset2 |-> 160, treeFlag |-> 0],
      [offset1 |-> 180, offset2 |-> 170, treeFlag |-> 1]>>,
    <<[offset1 |-> 150, offset2 |-> 160, treeFlag |-> 0]>>,
    BoundaryTableExample }
Categories == {"namelists", "tacans", "boundaries"}
ObjectTypes == {"AIRPORT", "BOUNDARY"}
BglOptions ==
  [sim : {"FSX", "MSFS_2024"},
   included : {ObjectTypes},
   navigraph : {FALSE},
   supported : {{}}]
  \cup
  [sim : {"MSFS"},
   included : {ObjectTypes \ {"AIRPORT", "BOUNDARY"}},
   navigraph : {TRUE},
   supported : {SectionTypes \ {"UNKNOWN"}}]

NoRec == [set |-> FALSE, start |-> 0, size |-> 0, end |-> 0]
NoHeader == [valid |-> TRUE, numSections |-> 0, pos |-> 0]
NoneCollected == [c \in Categories |-> 0]
NoCounts == [i \in Idents |-> 0]
CollectorLists == Categories \cup {"airports", "sections", "subsections"}
NoOrigin == [l \in CollectorLists |-> {}]
NoScan == [set |-> FALSE, table |-> << >>]
NoBoundary == [set |-> FALSE, type |-> "OTHER", start |-> 0, size |-> 0, added |-> FALSE,
               warned |-> FALSE, before |-> 0]
NoFile == [size |-> 0, canOpen |-> FALSE, magic1 |-> 0, magic2 |-> 0, numSections |-> 0]

\* ------------------------------------------------------------------------
\* A header test that looks at the first magic number only
HeaderValidFirstMagicOnly(m1, m2, ns, size) == m1 = MAGIC_NUMBER1

\* A header test that also rejects a section directory longer than the file
HeaderValidSizeChecked(m1, m2, ns, size) ==
  m1 = MAGIC_NUMBER1 /\ m2 = MAGIC_NUMBER2 /\ HEADER_SIZE + SECTION_SIZE * ns <= size

\* Header::Header: the magic numbers decide validity; the section count is
\* read only from a header with valid magic numbers.
HeaderValid(m1, m2, ns, size) == m1 = MAGIC_NUMBER1 /\ m2 = MAGIC_NUMBER2

ReadHeader(m1, m2, ns, size) ==
  IF HeaderValid(m1, m2, ns, size)
  THEN [valid |-> TRUE, numSections |-> ns, pos |-> HEADER_SIZE]
  ELSE [valid |-> FALSE, numSections |-> 0, pos |-> HEADER_MAGIC_END]

\* BglFile::hasContent
hasContent ==
  ~(airports = <<>> /\ \A c \in Categories : collected[c] = 0)

\* BglFile::deleteAllObjects without subsections.clear()
DeleteAllObjectsKeepSubsections ==
  /\ airports' = <<>>
  /\ collected' = NoneCollected
  /\ sections' = <<>>
  /\ subsections' = subsections
  /\ origin' = [NoOrigin EXCEPT !["subsections"] = origin["subsections"]]

\* BglFile::deleteAllObjects, the lists
DeleteAllObjects ==
  /\ airports' = <<>>
  /\ collected' = NoneCollected
  /\ sections' = <<>>
  /\ subsections' = <<>>
  /\ origin' = NoOrigin

\* An object parsed from the file of the running readFile call is appended to
\* a list of the collector
AppendedTo(list) == [origin EXCEPT ![list] = @ \cup {fileNo}]

\* ------------------------------------------------------------------------
\* BglFile::readFile up to and including readHeader
ReadFile ==
  /\ bpc \in {"idle", "done", "thrown"}
  /\ fileNo < MaxFiles
  /\ fileNo' = fileNo + 1
  /\ DeleteAllObjects
  /\ exception' = "none"
  /\ eofRead' = "none"
  /\ secRead' = 0 /\ subIdx' = 0 /\ recIdx' = 0 /\ declared' = 0
  /\ secIdx' = 0 /\ subRead' = 0
  /\ airportIdentCount' = NoCounts
  /\ lastRec' = NoRec
  /\ scanStart' = NoScan /\ lastBoundary' = NoBoundary /\ walked' = << >>
  /\ hadContent' = (hasContent /\ sections # << >> /\ subsections # << >>)
  /\ UNCHANGED <<scVars, navVars, ilsVars, pkVars, xpVars, utilVars, opts>>
  /\ \E size \in FileSizes, canOpen \in BOOLEAN, m1 \in Magics1, m2 \in Magics2,
        ns \in SectionCounts :
       /\ file' = [size |-> size, canOpen |-> canOpen, magic1 |-> m1, magic2 |-> m2,
                    numSections |-> ns]
       /\ IF ~(size >= HEADER_SIZE /\ canOpen)
          THEN /\ bpc' = "done"
               /\ fileSize' = 0
               /\ pos' = 0
               /\ UNCHANGED header
          ELSE LET h == ReadHeader(m1, m2, ns, size) IN
               /\ fileSize' = size
               /\ header' = h
               /\ pos' = h.pos
               /\ bpc' = IF h.valid THEN "sections" ELSE "done"

\* A read of n bytes at the stream position that does not fit into the file
StreamError(where) ==
  /\ bpc' = "thrown"
  /\ exception' = "stream"
  /\ eofRead' = where

\* BglFile::readSections: an empty supportedSectionTypes supports every type
SupportedTypes(o) == IF o.supported = {} THEN SectionTypes ELSE o.supported

\* BglFile::readSections, first loop: one section directory entry
ReadSection ==
  /\ bpc = "sections"
  /\ secRead < header.numSections
  /\ UNCHANGED <<scVars, navVars, ilsVars, pkVars, xpVars, utilVars, file, hadContent, scanStart, lastBoundary, walked, fileNo, opts, fileSize, header, subsections, subIdx, recIdx, airports,
                 collected, airportIdentCount, lastRec, declared, secIdx, subRead>>
  /\ IF pos + SECTION_SIZE > fileSize
     THEN /\ StreamError("section")
          /\ UNCHANGED <<pos, secRead, sections, origin>>
     ELSE /\ \E t \in SectionTypes, n \in SubsectionCounts, off \in SubsectionOffsets :
               /\ sections' = IF t \in SupportedTypes(opts)
                              THEN Append(sections, [type |-> t, numSubsections |-> n,
                                                     firstSubsectionOffset |-> off])
                              ELSE sections
               /\ origin' = IF t \in SupportedTypes(opts) THEN AppendedTo("sections")
                            ELSE origin
          /\ pos' = pos + SECTION_SIZE
          /\ secRead' = secRead + 1
          /\ UNCHANGED <<bpc, exception, eofRead>>

\* BglFile::readSections, second loop: one subsection of a section that is
\* neither boundary nor geopol
ReadSubsection ==
  /\ bpc = "sections"
  /\ secRead = header.numSections
  /\ secIdx < Len(sections)
  /\ LET s == sections[secIdx + 1]
         p == IF subRead = 0 THEN s.firstSubsectionOffset ELSE pos IN
     /\ s.type \notin {"BOUNDARY", "GEOPOL"}
     /\ subRead < s.numSubsections
     /\ UNCHANGED <<scVars, navVars, ilsVars, pkVars, xpVars, utilVars, file, hadContent, scanStart, lastBoundary, walked, fileNo, opts, fileSize, header, secRead, sections, subIdx, recIdx,
                    airports, collected, airportIdentCount, lastRec, secIdx>>
     /\ IF p + SUBSECTION_SIZE > fileSize
        THEN /\ StreamError("subsection")
             /\ pos' = p
             /\ UNCHANGED <<subsections, declared, subRead, origin>>
        ELSE /\ \E off \in RecordOffsets,
                     n \in {c \in RecordCounts : c <= MaxRecords - declared} :
                  /\ subsections' = Append(subsections,
                                           [type |-> s.type,
                                            firstDataRecordOffset |-> off,
                                            numDataRecords |-> n])
                  /\ declared' = declared + n
             /\ origin' = AppendedTo("subsections")
             /\ pos' = p + SUBSECTION_SIZE
             /\ subRead' = subRead + 1
             /\ UNCHANGED <<bpc, exception, eofRead>>

\* BglFile::readSections, second loop: on to the next section; a section
\* without subsections was only sought to
NextSection ==
  /\ bpc = "sections"
  /\ secRead = header.numSections
  /\ secIdx < Len(sections)
  /\ LET s == sections[secIdx + 1] IN
       IF s.type \in {"BOUNDARY", "GEOPOL"} THEN TRUE ELSE subRead = s.numSubsections
  /\ secIdx' = secIdx + 1
  /\ subRead' = 0
  /\ pos' = LET s == sections[secIdx + 1] IN
            IF s.type \notin {"BOUNDARY", "GEOPOL"} /\ subRead = 0
            THEN s.firstSubsectionOffset ELSE pos
  /\ UNCHANGED <<scVars, navVars, ilsVars, pkVars, xpVars, utilVars, file, hadContent, origin, scanStart, lastBoundary, walked, bpc, fileNo, opts, fileSize, header, secRead, sections, subsections,
                 subIdx, recIdx, airports, collected, airportIdentCount, lastRec,
                 exception, eofRead, declared>>

\* BglFile::readFile after readSections: readBoundaryRecords only when
\* boundaries are included and the area is no Navigraph navdata
EndSections ==
  /\ bpc = "sections"
  /\ secRead = header.numSections
  /\ secIdx = Len(sections)
  /\ bpc' = IF "BOUNDARY" \in opts.included /\ ~opts.navigraph
            THEN "boundaries" ELSE "records"
  /\ secIdx' = 0
  /\ UNCHANGED <<scVars, navVars, ilsVars, pkVars, xpVars, utilVars, file, hadContent, origin, scanStart, lastBoundary, walked, fileNo, opts, fileSize, pos, header, secRead, sections, subsections,
                 subIdx, recIdx, airports, collected, airportIdentCount, lastRec,
                 exception, eofRead, declared, subRead>>

\* ------------------------------------------------------------------------
\* BglFile::readBoundaryRecords: the lowest offset1/offset2 of the entries
\* of the offset table that have a tree flag
\* BglFile::readBoundaryRecords without the tree flag test: the lowest
\* offset1/offset2 of every entry of the offset table
RECURSIVE MinOffsetAnyEntry(_, _)
MinOffsetAnyEntry(table, minOffset) ==
  IF table = <<>> THEN minOffset
  ELSE LET e == Head(table)
           m1 == IF e.offset1 < minOffset THEN e.offset1 ELSE minOffset
           m2 == IF e.offset2 < m1 THEN e.offset2 ELSE m1
       IN MinOffsetAnyEntry(Tail(table), m2)
RECURSIVE MinOffset(_, _)
MinOffset(table, minOffset) ==
  IF table = <<>> THEN minOffset
  ELSE LET e == Head(table)
           m1 == IF e.treeFlag > 0 /\ e.offset1 < minOffset THEN e.offset1 ELSE minOffset
           m2 == IF e.treeFlag > 0 /\ e.offset2 < m1 THEN e.offset2 ELSE m1
       IN MinOffset(Tail(table), m2)

\* BglFile::readBoundaryRecords for a boundary section: read the offset
\* table and seek to the lowest offset
ReadBoundaryTable ==
  /\ bpc = "boundaries"
  /\ secIdx < Len(sections)
  /\ sections[secIdx + 1].type = "BOUNDARY"
  /\ \E table \in BoundaryTables :
       /\ pos' = MinOffset(table, UINT_MAX)
       /\ scanStart' = [set |-> TRUE, table |-> table]
  /\ lastBoundary' = NoBoundary
  /\ bpc' = "boundaryScan"
  /\ UNCHANGED <<scVars, navVars, ilsVars, pkVars, xpVars, utilVars, file, hadContent, origin, walked, fileNo, opts, fileSize, header, secRead, sections, subsections,
                 subIdx, recIdx, airports, collected, airportIdentCount, lastRec,
                 exception, eofRead, declared, secIdx, subRead>>

\* BglFile::readBoundaryRecords: a section of another type is passed over
SkipNonBoundarySection ==
  /\ bpc = "boundaries"
  /\ secIdx < Len(sections)
  /\ sections[secIdx + 1].type # "BOUNDARY"
  /\ secIdx' = secIdx + 1
  /\ UNCHANGED <<scVars, navVars, ilsVars, pkVars, xpVars, utilVars, file, hadContent, origin, scanStart, lastBoundary, walked, bpc, fileNo, opts, fileSize, pos, header, secRead, sections, subsections,
                 subIdx, recIdx, airports, collected, airportIdentCount, lastRec,
                 exception, eofRead, declared, subRead>>

\* BglFile::handleBoundaries: a record of this type is created as a Boundary
IsBoundaryType(type) == type \in {"BOUNDARY", "BOUNDARY_MSFS2024"}

\* BglFile::handleBoundaries: the "unexpected record" warning is printed
BoundaryWarnsGeopolToo(type) == ~IsBoundaryType(type)

BoundaryWarns(type) == ~IsBoundaryType(type) /\ type # "GEOPOL"

\* Record::seekToEnd: the stream is set to the start of the record plus its
\* declared size
SeekToEnd(start, size) == start + size

\* The bytes of the file do not change: a record read again at the offset of
\* the record before is that record
SameBytes(type, size, created) ==
  (lastBoundary.set /\ lastBoundary.start = pos) =>
    /\ type = lastBoundary.type
    /\ size = lastBoundary.size
    /\ (IsBoundaryType(type) /\ created) = lastBoundary.added

\* BglFile::handleBoundaries: one iteration of the loop
HandleBoundary ==
  /\ bpc = "boundaryScan"
  /\ pos < fileSize
  /\ UNCHANGED <<scVars, navVars, ilsVars, pkVars, xpVars, utilVars, file, hadContent, walked, fileNo, opts, fileSize, header, secRead, sections, subsections,
                 subIdx, recIdx, airports, airportIdentCount, lastRec,
                 declared, secIdx, subRead>>
  /\ IF pos + RECORD_HEADER_SIZE > fileSize
     THEN /\ StreamError("boundary")
          /\ UNCHANGED <<pos, collected, scanStart, lastBoundary, origin>>
     ELSE /\ \E type \in BoundaryRecordTypes, size \in BoundarySizes, created \in BOOLEAN :
               /\ collected' =
                    IF IsBoundaryType(type) /\ created
                    THEN [collected EXCEPT !["boundaries"] = @ + 1]
                    ELSE collected
               /\ origin' = IF IsBoundaryType(type) /\ created THEN AppendedTo("boundaries")
                            ELSE origin
               /\ SameBytes(type, size, created)
               /\ collected'["boundaries"] <= MaxBoundaries
               /\ pos' = SeekToEnd(pos, size)
               /\ lastBoundary' = [set |-> TRUE, type |-> type, start |-> pos, size |-> size,
                                   added |-> IsBoundaryType(type) /\ created,
                                   warned |-> BoundaryWarns(type),
                                   before |-> collected["boundaries"]]
          /\ scanStart' = NoScan
          /\ UNCHANGED <<bpc, exception, eofRead>>

\* BglFile::handleBoundaries: the loop ends at the end of the file
EndBoundaryScan ==
  /\ bpc = "boundaryScan"
  /\ pos >= fileSize
  /\ bpc' = "boundaries"
  /\ secIdx' = secIdx + 1
  /\ scanStart' = NoScan
  /\ lastBoundary' = NoBoundary
  /\ UNCHANGED <<scVars, navVars, ilsVars, pkVars, xpVars, utilVars, file, hadContent, origin, walked, fileNo, opts, fileSize, pos, header, secRead, sections, subsections,
                 subIdx, recIdx, airports, collected, airportIdentCount, lastRec,
                 exception, eofRead, declared, subRead>>

\* BglFile::readFile: readBoundaryRecords has returned
EndBoundaries ==
  /\ bpc = "boundaries"
  /\ secIdx = Len(sections)
  /\ bpc' = "records"
  /\ UNCHANGED <<scVars, navVars, ilsVars, pkVars, xpVars, utilVars, file, hadContent, origin, scanStart, lastBoundary, walked, fileNo, opts, fileSize, pos, header, secRead, sections, subsections,
                 subIdx, recIdx, airports, collected, airportIdentCount, lastRec,
                 exception, eofRead, declared, secIdx, subRead>>

\* ------------------------------------------------------------------------
\* BglFile::readRecords, the switch without the simulator test of the TACAN
\* case
CreatedCategoryTacanUngated(type, o) ==
  CASE type = "AIRPORT" ->
         IF o.sim # "MSFS_2024" /\ "AIRPORT" \in o.included THEN "airports" ELSE "none"
    [] type = "AIRPORT_ALT" ->
         IF o.sim # "MSFS_2024" /\ "AIRPORT" \in o.included THEN "airportsAlt" ELSE "none"
    [] type = "NAME_LIST" -> IF o.sim # "MSFS_2024" THEN "namelists" ELSE "none"
    [] type = "P3D_TACAN" -> "tacans"
    [] OTHER -> "none"

\* BglFile::readRecords, the switch: the list a concrete record is created
\* for, or "none" when the section's records are only skipped
CreatedCategory(type, o) ==
  CASE type = "AIRPORT" ->
         IF o.sim # "MSFS_2024" /\ "AIRPORT" \in o.included THEN "airports" ELSE "none"
    [] type = "AIRPORT_ALT" ->
         IF o.sim # "MSFS_2024" /\ "AIRPORT" \in o.included THEN "airportsAlt" ELSE "none"
    [] type = "NAME_LIST" -> IF o.sim # "MSFS_2024" THEN "namelists" ELSE "none"
    [] type = "P3D_TACAN" -> IF o.sim # "MSFS_2024" THEN "tacans" ELSE "none"
    [] OTHER -> "none"

\* BglFile::readRecords without the name list rule: the declared count
NumRecDeclared(sub) == sub.numDataRecords

\* BglFile::readRecords: the number of records read from a subsection
NumRec(sub) == IF sub.type = "NAME_LIST" THEN 1 ELSE sub.numDataRecords

\* A duplicate test that is fatal one record earlier
DuplicateExceededEarly(count) == count >= DUPLICATE_LIMIT

\* BglFile::readRecords: the test that makes a repeated airport ident fatal
DuplicateExceeded(count) == count > DUPLICATE_LIMIT

\* A duplicate count that takes a repeated airport out of the list again
CountAirportDropDuplicate(aps, counts, ident) ==
  IF counts[ident] = 0
  THEN [airports |-> aps, counts |-> [counts EXCEPT ![ident] = 1], throw |-> FALSE]
  ELSE IF counts[ident] > DUPLICATE_LIMIT
       THEN [airports |-> aps, counts |-> counts, throw |-> TRUE]
       ELSE [airports |-> SubSeq(aps, 1, Len(aps) - 1),
             counts |-> [counts EXCEPT ![ident] = @ + 1], throw |-> FALSE]

\* BglFile::readRecords: the duplicate count of an airport that createRecord
\* has put into the airport list
CountAirport(aps, counts, ident) ==
  IF counts[ident] = 0
  THEN [airports |-> aps, counts |-> [counts EXCEPT ![ident] = 1], throw |-> FALSE]
  ELSE IF DuplicateExceeded(counts[ident])
       THEN [airports |-> aps, counts |-> counts, throw |-> TRUE]
       ELSE [airports |-> aps, counts |-> [counts EXCEPT ![ident] = @ + 1], throw |-> FALSE]

\* A record loop that never repositions the stream
PositionAfterDispatchNoSeek(start, size, parserEnd, fsize) == parserEnd

\* BglFile::readRecords: the stream position after a record was dispatched
PositionAfterDispatch(start, size, parserEnd, fsize) ==
  IF size < fsize THEN start + size ELSE parserEnd

\* BglFile::readRecords: the record loop of the current subsection is over
AtSubsectionEnd ==
  IF subIdx = 0 THEN TRUE ELSE recIdx = NumRec(subsections[subIdx])

\* BglFile::readRecords: the loop over the subsections enters the next one
BeginSubsection ==
  /\ bpc = "records"
  /\ AtSubsectionEnd
  /\ subIdx < Len(subsections)
  /\ subIdx' = subIdx + 1
  /\ recIdx' = 0
  /\ pos' = subsections[subIdx + 1].firstDataRecordOffset
  /\ walked' = Append(walked, [seek |-> pos', n |-> 0])
  /\ lastRec' = NoRec
  /\ UNCHANGED <<scVars, navVars, ilsVars, pkVars, xpVars, utilVars, file, hadContent, origin, scanStart, lastBoundary, bpc, fileNo, opts, fileSize, header, secRead, sections, subsections,
                 airports, collected, airportIdentCount, exception, eofRead, declared,
                 secIdx, subRead>>

\* BglFile::readRecords: one iteration of the record loop
DispatchRecord ==
  /\ bpc = "records"
  /\ subIdx > 0
  /\ recIdx < NumRec(subsections[subIdx])
  /\ UNCHANGED <<scVars, navVars, ilsVars, pkVars, xpVars, utilVars, file, hadContent, scanStart, lastBoundary, fileNo, opts, fileSize, header, secRead, sections, subsections, subIdx,
                 declared, secIdx, subRead>>
  /\ LET type == subsections[subIdx].type IN
     \E size \in RecordSizes :
       LET cat == CreatedCategory(type, opts) IN
       \E ident \in (IF cat \in {"airports", "airportsAlt"} THEN Idents ELSE {"ZZZZ"}),
          created \in (IF cat = "none" THEN {FALSE} ELSE BOOLEAN) :
         \E consumed \in (IF created THEN ParserConsumed ELSE {RECORD_HEADER_SIZE}) :
           LET start == pos
               parserEnd == start + consumed
               ap == CountAirport(Append(airports, [ident |-> ident, alt |-> FALSE]),
                                  airportIdentCount, ident)
           IN
           IF parserEnd > fileSize
           THEN /\ StreamError("record")
                /\ UNCHANGED <<pos, recIdx, airports, collected, airportIdentCount, lastRec,
                               walked, origin>>
           ELSE IF created /\ cat = "airports" /\ ap.throw
           THEN /\ bpc' = "thrown"
                /\ exception' = "duplicate"
                /\ airports' = ap.airports
                /\ origin' = AppendedTo("airports")
                /\ pos' = parserEnd
                /\ UNCHANGED <<recIdx, collected, airportIdentCount, lastRec, eofRead, walked>>
           ELSE /\ airports' = IF created /\ cat = "airports" THEN ap.airports
                             ELSE IF created /\ cat = "airportsAlt"
                             THEN Append(airports, [ident |-> ident, alt |-> TRUE])
                             ELSE airports
                /\ airportIdentCount' =
                     IF created /\ cat = "airports" THEN ap.counts ELSE airportIdentCount
                /\ collected' = IF created /\ cat \in Categories
                                THEN [collected EXCEPT ![cat] = @ + 1]
                                ELSE collected
                /\ pos' = PositionAfterDispatch(start, size, parserEnd, fileSize)
                /\ lastRec' = [set |-> TRUE, start |-> start, size |-> size,
                               end |-> parserEnd]
                /\ origin' = IF ~created THEN origin
                             ELSE IF cat = "airportsAlt" THEN AppendedTo("airports")
                             ELSE AppendedTo(cat)
                /\ recIdx' = recIdx + 1
                /\ walked' = [walked EXCEPT ![Len(walked)].n = @ + 1]
                /\ UNCHANGED <<bpc, exception, eofRead>>

\* BglFile::readRecords returns and readFile closes the file
EndRecords ==
  /\ bpc = "records"
  /\ AtSubsectionEnd
  /\ subIdx = Len(subsections)
  /\ bpc' = "done"
  /\ UNCHANGED <<scVars, navVars, ilsVars, pkVars, xpVars, utilVars, file, hadContent, origin, scanStart, lastBoundary, walked, fileNo, opts, fileSize, pos, header, secRead, sections, subsections,
                 subIdx, recIdx, airports, collected, airportIdentCount, lastRec,
                 exception, eofRead, declared, secIdx, subRead>>

\* ------------------------------------------------------------------------
BglInit ==
  /\ bpc = "idle"
  /\ fileNo = 0
  /\ opts \in BglOptions
  /\ fileSize = 0
  /\ pos = 0
  /\ header = NoHeader
  /\ secRead = 0
  /\ sections = <<>>
  /\ subsections = <<>>
  /\ subIdx = 0
  /\ recIdx = 0
  /\ airports = <<>>
  /\ collected = NoneCollected
  /\ airportIdentCount = NoCounts
  /\ lastRec = NoRec
  /\ exception = "none"
  /\ eofRead = "none"
  /\ declared = 0
  /\ secIdx = 0
  /\ subRead = 0
  /\ file = NoFile
  /\ scanStart = NoScan
  /\ lastBoundary = NoBoundary
  /\ walked = << >>
  /\ origin = NoOrigin
  /\ hadContent = FALSE

BglNext ==
  \/ ReadFile
  \/ ReadSection
  \/ ReadSubsection
  \/ NextSection
  \/ EndSections
  \/ ReadBoundaryTable
  \/ SkipNonBoundarySection
  \/ HandleBoundary
  \/ EndBoundaryScan
  \/ EndBoundaries
  \/ BeginSubsection
  \/ DispatchRecord
  \/ EndRecords

\* ========================================================================
\* NavDatabase (fs/navdatabase.cpp)

\* Bound of the model: scenery areas of the scenery configuration
MaxAreas == 2

NavObjectTypes == {"AIRPORT", "WAYPOINT", "VOR", "NDB", "MARKER", "ILS", "AIRWAY", "APPROACH"}
NavIncluded == {NavObjectTypes, {"AIRPORT", "ILS"}, {}}
NavOptions ==
  [sim : {"XPLANE11"}, included : NavIncluded, areas : {0},
   deduplicate : BOOLEAN, resolveAirways : BOOLEAN, createRouteTables : BOOLEAN,
   databaseReport : BOOLEAN, autocommit : BOOLEAN, collectErrors : BOOLEAN]
  \cup
  [sim : {"FSX"}, included : {NavObjectTypes}, areas : 0..MaxAreas,
   deduplicate : BOOLEAN, resolveAirways : BOOLEAN, createRouteTables : BOOLEAN,
   databaseReport : BOOLEAN, autocommit : BOOLEAN, collectErrors : BOOLEAN]

\* The kinds of steps of createInternal
ReportOther(message) == [kind |-> "report", name |-> message]
ExecuteScript(scriptFile) == [kind |-> "script", name |-> scriptFile]
LoadStepOf(name) == [kind |-> "load", name |-> name]
DbCommit == [kind |-> "commit", name |-> "commit"]
Diagnostic(name) == [kind |-> "diag", name |-> name]

\* NavDatabase::runScript: handler call, script, commit
runScript(scriptFile, message) ==
  <<ReportOther(message), ExecuteScript(scriptFile), DbCommit>>

\* NavDatabase::createSchemaInternal followed by the first metadata update
createSchemaInternal ==
  << ReportOther("Removing Views"), ExecuteScript("drop_view"),
     ReportOther("Removing Routing and Search"), ExecuteScript("drop_routing_search"),
     ReportOther("Removing Navigation Aids"), ExecuteScript("drop_nav"),
     ReportOther("Removing Airport Facilites"), ExecuteScript("drop_airport_facilities"),
     ReportOther("Removing Approaches"), ExecuteScript("drop_approach"),
     ReportOther("Removing Airports"), ExecuteScript("drop_airport"),
     ReportOther("Removing Metadata"), ExecuteScript("drop_meta"),
     DbCommit,
     ReportOther("Creating Database Schema"),
     ExecuteScript("create_boundary_schema"), ExecuteScript("create_nav_schema"),
     ExecuteScript("create_ap_schema"), ExecuteScript("create_route_schema"),
     ExecuteScript("create_meta_schema"), ExecuteScript("create_views"),
     DbCommit,
     ExecuteScript("metadata_initial") >>

\* NavDatabase::createInternal, the X-Plane branch of loading
XpLoadSteps(o) ==
  << [kind |-> "bucket", name |-> "X-Plane"],
     ReportOther("X-Plane"), LoadStepOf("writeBasepathScenery"), LoadStepOf("compileMagDeclBgl") >>
  \o (IF "AIRPORT" \in o.included
      THEN << LoadStepOf("compileCustomApt"), LoadStepOf("compileCustomGlobalApt"),
              LoadStepOf("compileDefaultApt") >>
      ELSE << >>)
  \o (IF "WAYPOINT" \in o.included
      THEN << LoadStepOf("compileEarthFix"), LoadStepOf("compileUserFix") >>
      ELSE << >>)
  \o (IF o.included \cap {"VOR", "NDB", "MARKER", "ILS"} # {}
      THEN << LoadStepOf("compileEarthNav"), LoadStepOf("compileUserNav") >>
      ELSE << >>)
  \o (IF "AIRWAY" \in o.included
      THEN << LoadStepOf("compileEarthAirway") >>
           \o runScript("prepare_airway", "Preparing Airways")
           \o << LoadStepOf("postProcessEarthAirway") >>
      ELSE << >>)
  \o (IF "APPROACH" \in o.included THEN << LoadStepOf("compileCifp") >> ELSE << >>)
  \o << [kind |-> "cleanup", name |-> "X-Plane"] >>

\* NavDatabase::createInternal, the loop over the scenery areas
RECURSIVE AreaSteps(_)
AreaSteps(n) ==
  IF n = 0 THEN << >>
  ELSE AreaSteps(n - 1)
       \o << ReportOther("Scenery area " \o ToString(n)),
             LoadStepOf("writeSceneryArea " \o ToString(n)) >>

\* NavDatabase::createInternal, the FSX/P3D/MSFS branch of loading
FsLoadSteps(o) ==
  << ExecuteScript("readMagDeclBgl") >> \o AreaSteps(o.areas) \o << DbCommit >>

\* A post-load sequence that merges VOR and TACAN before the airways are resolved
PostLoadStepsVorFirst(o) ==
  runScript("create_indexes_post_load", "Creating indexes")
  \o (IF o.deduplicate THEN runScript("delete_duplicates", "Clean up") ELSE << >>)
  \o (IF o.sim # "XPLANE11"
      THEN runScript("update_vor", "Merging VOR and TACAN to VORTAC") ELSE << >>)
  \o (IF o.resolveAirways
      THEN << ReportOther("Creating airways"), LoadStepOf("AirwayResolver") >> ELSE << >>)
  \o runScript("update_wp_ids", "Updating waypoints")
  \o runScript("update_approaches", "Updating approaches")
  \o (IF o.sim # "XPLANE11" THEN runScript("update_ils_ids", "Updating ILS") ELSE << >>)
  \o runScript("update_num_ils", "Updating ILS Count")
  \o runScript("populate_nav_search", "Collecting navaids for search")
  \o runScript("populate_route_node", "Populating routing tables")
  \o (IF o.createRouteTables
      THEN << ReportOther("Creating route edges for VOR and NDB"),
              LoadStepOf("RouteEdgeWriter") >>
      ELSE << >>)
  \o runScript("populate_route_edge", "Creating route edges waypoints")
  \o runScript("finish_schema", "Creating indexes for search")
  \o << [kind |-> "airac", name |-> "setAiracCycle"], ExecuteScript("metadata_final") >>

\* NavDatabase::createInternal, the post process steps
PostLoadSteps(o) ==
  runScript("create_indexes_post_load", "Creating indexes")
  \o (IF o.deduplicate THEN runScript("delete_duplicates", "Clean up") ELSE << >>)
  \o (IF o.resolveAirways
      THEN << ReportOther("Creating airways"), LoadStepOf("AirwayResolver") >> ELSE << >>)
  \o (IF o.sim # "XPLANE11"
      THEN runScript("update_vor", "Merging VOR and TACAN to VORTAC") ELSE << >>)
  \o runScript("update_wp_ids", "Updating waypoints")
  \o runScript("update_approaches", "Updating approaches")
  \o (IF o.sim # "XPLANE11" THEN runScript("update_ils_ids", "Updating ILS") ELSE << >>)
  \o runScript("update_num_ils", "Updating ILS Count")
  \o runScript("populate_nav_search", "Collecting navaids for search")
  \o runScript("populate_route_node", "Populating routing tables")
  \o (IF o.createRouteTables
      THEN << ReportOther("Creating route edges for VOR and NDB"),
              LoadStepOf("RouteEdgeWriter") >>
      ELSE << >>)
  \o runScript("populate_route_edge", "Creating route edges waypoints")
  \o runScript("finish_schema", "Creating indexes for search")
  \o << [kind |-> "airac", name |-> "setAiracCycle"], ExecuteScript("metadata_final") >>

\* NavDatabase::createInternal, the statistics and reports
DatabaseReportSteps(o) ==
  IF o.databaseReport
  THEN << ReportOther("Creating table statistics"), Diagnostic("printTableStats"),
          ReportOther("Creating report on values"), Diagnostic("createColumnReport"),
          ReportOther("Creating report on duplicates"), Diagnostic("reportDuplicates"),
          ReportOther("Creating report on coordinate duplicates"),
          Diagnostic("reportCoordinateViolations") >>
  ELSE << >>

\* NavDatabase::createInternal as the sequence of its steps
createInternal(o) ==
  createSchemaInternal
  \o (IF o.sim = "XPLANE11" THEN XpLoadSteps(o) ELSE FsLoadSteps(o))
  \o PostLoadSteps(o)
  \o DatabaseReportSteps(o)
  \o << [kind |-> "finish", name |-> "reportFinish"] >>

CurrentStep == createInternal(navOpts)[npc]

\* The index of the last step of the loading branch of createInternal
LoadingEnd(o) ==
  Len(createSchemaInternal)
  + Len(IF o.sim = "XPLANE11" THEN XpLoadSteps(o) ELSE FsLoadSteps(o))

\* Whether a load step can leave an error for the caller: the steps of the
\* loading branch of a run that has an error collector
ErrorChoices ==
  IF navOpts.collectErrors /\ npc <= LoadingEnd(navOpts) THEN BOOLEAN ELSE {FALSE}

\* XpDataCompiler records an error of a file in the bucket of the X-Plane area
RecordXpError == [sceneryErrors EXCEPT ![1].filled = TRUE]

\* The bucket of a scenery area that had errors is appended
AppendAreaErrors(area) == Append(sceneryErrors, [area |-> area, filled |-> TRUE])

\* The end of the X-Plane branch: the list is cleared if its first bucket has
\* neither file errors nor messages
RemoveUnusedBucket ==
  IF navOpts.collectErrors /\ sceneryErrors # << >>
  THEN (IF ~sceneryErrors[1].filled THEN << >> ELSE sceneryErrors)
  ELSE sceneryErrors

\* A step that goes on to the next step whatever the aborted signal is
AfterAbortCheckIgnored(ab, k) == [phase |-> "running", npc |-> k + 1]

\* if((aborted = ...)) return;
AfterAbortCheck(ab, k) ==
  IF ab THEN [phase |-> "internalReturned", npc |-> k]
  ELSE [phase |-> "running", npc |-> k + 1]

\* A statement executed on db: committed at once in autocommit mode
ApplyChange(name) ==
  IF dbAutocommit
  THEN committed' = committed \cup {name} /\ UNCHANGED pending
  ELSE pending' = pending \cup {name} /\ UNCHANGED committed

\* NavDatabase::create is called; createInternal sets the autocommit mode
CreateBegin ==
  /\ navPhase = "idle"
  /\ navPhase' = "running"
  /\ npc' = 1
  /\ dbAutocommit' = navOpts.autocommit
  /\ UNCHANGED <<scVars, bglVars, ilsVars, pkVars, xpVars, utilVars, sceneryErrors, navOpts, aborted, abortSignalled, log, pending,
                 committed, rollbacks, finishCalled>>

\* A call of progress.reportOther or progress.reportSceneryArea
ReportStep ==
  /\ navPhase = "running"
  /\ CurrentStep.kind = "report"
  /\ \E ab \in BOOLEAN :
       /\ aborted' = ab
       /\ abortSignalled' = (abortSignalled \/ ab)
       /\ navPhase' = AfterAbortCheck(ab, npc).phase
       /\ npc' = AfterAbortCheck(ab, npc).npc
  /\ log' = Append(log, CurrentStep.name)
  /\ UNCHANGED <<scVars, bglVars, ilsVars, pkVars, xpVars, utilVars, sceneryErrors, navOpts, pending, committed, dbAutocommit, rollbacks,
                 finishCalled>>

\* A script or another step that changes the database and cannot be aborted
ScriptStep ==
  /\ navPhase = "running"
  /\ CurrentStep.kind = "script"
  /\ ApplyChange(CurrentStep.name)
  /\ log' = Append(log, CurrentStep.name)
  /\ npc' = npc + 1
  /\ UNCHANGED <<scVars, bglVars, ilsVars, pkVars, xpVars, utilVars, sceneryErrors, navPhase, navOpts, aborted, abortSignalled, dbAutocommit,
                 rollbacks, finishCalled>>

\* A load step, the airway resolver or the route edge writer: it changes the
\* database and returns the aborted signal
LoadStep ==
  /\ navPhase = "running"
  /\ CurrentStep.kind = "load"
  /\ ApplyChange(CurrentStep.name)
  /\ log' = Append(log, CurrentStep.name)
  /\ \E ab \in BOOLEAN :
       /\ aborted' = ab
       /\ abortSignalled' = (abortSignalled \/ ab)
       /\ navPhase' = AfterAbortCheck(ab, npc).phase
       /\ npc' = AfterAbortCheck(ab, npc).npc
  /\ \E err \in ErrorChoices :
       sceneryErrors' = IF ~err THEN sceneryErrors
                        ELSE IF navOpts.sim = "XPLANE11" THEN RecordXpError
                        ELSE AppendAreaErrors(CurrentStep.name)
  /\ UNCHANGED <<scVars, bglVars, ilsVars, pkVars, xpVars, utilVars, navOpts, dbAutocommit, rollbacks, finishCalled>>

\* The X-Plane branch appends the bucket of its single scenery area
BucketStep ==
  /\ navPhase = "running"
  /\ CurrentStep.kind = "bucket"
  /\ sceneryErrors' = IF navOpts.collectErrors
                      THEN Append(sceneryErrors, [area |-> CurrentStep.name, filled |-> FALSE])
                      ELSE sceneryErrors
  /\ npc' = npc + 1
  /\ UNCHANGED <<scVars, bglVars, ilsVars, pkVars, xpVars, utilVars, navPhase, navOpts, aborted, abortSignalled, log,
                 pending, committed, dbAutocommit, rollbacks, finishCalled>>

\* The X-Plane branch closes the compiler and removes an unused bucket
CleanupStep ==
  /\ navPhase = "running"
  /\ CurrentStep.kind = "cleanup"
  /\ sceneryErrors' = RemoveUnusedBucket
  /\ npc' = npc + 1
  /\ UNCHANGED <<scVars, bglVars, ilsVars, pkVars, xpVars, utilVars, navPhase, navOpts, aborted, abortSignalled, log,
                 pending, committed, dbAutocommit, rollbacks, finishCalled>>

\* db->commit()
CommitStep ==
  /\ navPhase = "running"
  /\ CurrentStep.kind = "commit"
  /\ committed' = committed \cup pending
  /\ pending' = {}
  /\ npc' = npc + 1
  /\ UNCHANGED <<scVars, bglVars, ilsVars, pkVars, xpVars, utilVars, sceneryErrors, navPhase, navOpts, aborted, abortSignalled, log,
                 dbAutocommit, rollbacks, finishCalled>>

\* databaseMetadata.setAiracCycle(xpDataCompiler->getAiracCycle()): the
\* compiler exists only in an X-Plane run; in other runs the null pointer is
\* dereferenced, and the run either crashes or goes on
AiracStep ==
  /\ navPhase = "running"
  /\ CurrentStep.kind = "airac"
  /\ \E outcome \in (IF navOpts.sim = "XPLANE11" THEN {"ok"} ELSE {"ok", "crash"}) :
       IF outcome = "ok"
       THEN /\ log' = Append(log, CurrentStep.name)
            /\ npc' = npc + 1
            /\ UNCHANGED navPhase
       ELSE /\ navPhase' = "crashed"
            /\ UNCHANGED <<log, npc>>
  /\ UNCHANGED <<scVars, bglVars, ilsVars, pkVars, xpVars, utilVars, sceneryErrors, navOpts, aborted, abortSignalled, pending, committed,
                 dbAutocommit, rollbacks, finishCalled>>

\* A statistics or report step: it reads the database only
DiagStep ==
  /\ navPhase = "running"
  /\ CurrentStep.kind = "diag"
  /\ log' = Append(log, CurrentStep.name)
  /\ npc' = npc + 1
  /\ UNCHANGED <<scVars, bglVars, ilsVars, pkVars, xpVars, utilVars, sceneryErrors, navPhase, navOpts, aborted, abortSignalled, pending,
                 committed, dbAutocommit, rollbacks, finishCalled>>

\* progress.reportFinish(), and createInternal returns
FinishStep ==
  /\ navPhase = "running"
  /\ CurrentStep.kind = "finish"
  /\ finishCalled' = TRUE
  /\ navPhase' = "internalReturned"
  /\ UNCHANGED <<scVars, bglVars, ilsVars, pkVars, xpVars, utilVars, sceneryErrors, npc, navOpts, aborted, abortSignalled, log, pending,
                 committed, dbAutocommit, rollbacks>>

\* NavDatabase::create after createInternal: roll back if aborted
CreateEnd ==
  /\ navPhase = "internalReturned"
  /\ navPhase' = "returned"
  /\ IF aborted
     THEN pending' = {} /\ rollbacks' = rollbacks + 1
     ELSE UNCHANGED <<pending, rollbacks>>
  /\ UNCHANGED <<scVars, bglVars, ilsVars, pkVars, xpVars, utilVars, sceneryErrors, npc, navOpts, aborted, abortSignalled, log, committed,
                 dbAutocommit, finishCalled>>

NavIdle ==
  /\ navPhase = "idle"
  /\ npc = 0
  /\ aborted = FALSE
  /\ abortSignalled = FALSE
  /\ log = << >>
  /\ pending = {}
  /\ committed = {}
  /\ dbAutocommit = FALSE
  /\ rollbacks = 0
  /\ finishCalled = FALSE
  /\ sceneryErrors = << >>

NavInit == NavIdle /\ navOpts \in NavOptions

NavNext ==
  \/ CreateBegin
  \/ ReportStep
  \/ ScriptStep
  \/ LoadStep
  \/ BucketStep
  \/ CleanupStep
  \/ CommitStep
  \/ AiracStep
  \/ DiagStep
  \/ FinishStep
  \/ CreateEnd

\* ========================================================================
\* IlsWriter (fs/db/nav/ilswriter.cpp); strings are sequences of characters

\* Bound of the model: writeObject calls
MaxIls == 3

EmptyString == << >>
IlsSims == {"FSX", "MSFS", "MSFS_2024"}
IlsOptions == [sim : IlsSims, incomplete : BOOLEAN]
IlsIdents == {EmptyString, <<"I", "S", "E", "A">>}
NameIlsCat3Rwy05L ==
  <<"I", "L", "S", " ", "C", "A", "T", " ", "I", "I", "I", " ", "R", "W", "Y", " ", "0", "5", "L">>
IlsNames ==
  { NameIlsCat3Rwy05L,
    <<"i", "l", "s", " ", " ", "r", "u", "n", "w", "a", "y", " ", "0", "6">>,
    <<" ", "I", "L", "S", "Z", "2", "2", "R">>,
    <<"L", "O", "C", " ", "D", "M", "E">> }
LocRunwayNames == {EmptyString, <<"0", "0">>, <<"0", "5", "L">>, <<"2", "3", " ">>}
IlsInputs ==
  [ident : IlsIdents, name : IlsNames, hasLoc : {TRUE}, runwayName : LocRunwayNames]
  \cup
  [ident : IlsIdents, name : IlsNames, hasLoc : {FALSE}, runwayName : {EmptyString}]

LowerCase == <<"a", "b", "c", "d", "e", "f", "g", "h", "i", "j", "k", "l", "m",
               "n", "o", "p", "q", "r", "s", "t", "u", "v", "w", "x", "y", "z">>
UpperCase == <<"A", "B", "C", "D", "E", "F", "G", "H", "I", "J", "K", "L", "M",
               "N", "O", "P", "Q", "R", "S", "T", "U", "V", "W", "X", "Y", "Z">>
Digits == {"0", "1", "2", "3", "4", "5", "6", "7", "8", "9"}
Designators == {"L", "R", "C", "W", "A", "B"}

\* QString::toUpper
toUpper(s) ==
  [i \in DOMAIN s |->
     IF \E k \in DOMAIN LowerCase : LowerCase[k] = s[i]
     THEN UpperCase[CHOOSE k \in DOMAIN LowerCase : LowerCase[k] = s[i]]
     ELSE s[i]]

RECURSIVE TrimLeft(_)
TrimLeft(s) == IF s # << >> /\ Head(s) = " " THEN TrimLeft(Tail(s)) ELSE s

RECURSIVE TrimRight(_)
TrimRight(s) ==
  IF s # << >> /\ s[Len(s)] = " " THEN TrimRight(SubSeq(s, 1, Len(s) - 1)) ELSE s

\* QString::trimmed
trimmed(s) == TrimRight(TrimLeft(s))

RECURSIVE CollapseSpaces(_)
CollapseSpaces(s) ==
  IF Len(s) < 2 THEN s
  ELSE IF s[1] = " " /\ s[2] = " " THEN CollapseSpaces(Tail(s))
  ELSE <<Head(s)>> \o CollapseSpaces(Tail(s))

\* QString::simplified
simplified(s) == CollapseSpaces(trimmed(s))

\* QString::remove(const QString&): every occurrence, from left to right
RECURSIVE remove(_, _)
remove(s, sub) ==
  IF Len(s) < Len(sub) THEN s
  ELSE IF SubSeq(s, 1, Len(sub)) = sub THEN remove(SubSeq(s, Len(sub) + 1, Len(s)), sub)
  ELSE <<Head(s)>> \o remove(Tail(s), sub)

\* fsutil runwayNameSplit: optional RW prefix, one or two digits, optional
\* designator, optional T
runwayNameSplit(name) ==
  LET rwname == IF Len(name) >= 2 /\ SubSeq(name, 1, 2) = <<"R", "W">>
                THEN SubSeq(name, 3, Len(name)) ELSE name
  IN \E d \in 1..2, g \in 0..1, t \in 0..1 :
       /\ Len(rwname) = d + g + t
       /\ \A i \in 1..d : rwname[i] \in Digits
       /\ g = 1 => rwname[d + 1] \in Designators
       /\ t = 1 => rwname[d + g + 1] = "T"

\* fsutil runwayNameValid
runwayNameValid(name) == runwayNameSplit(name)

\* IlsWriter::writeObject: the runway name taken out of the facility name
ExtractRunwayName(name) ==
  LET s0 == simplified(toUpper(name))
      s1 == remove(remove(remove(remove(s0, <<"I", "G", "S">>), <<"I", "L", "S", "Z">>),
                          <<"I", "L", "S", "X">>), <<"I", "L", "S", "Y">>)
      s2 == remove(remove(s1, <<"I", "L", "S">>), <<"C", "A", "T">>)
      s3 == remove(remove(remove(s2, <<"I">>), <<"I", "I">>), <<"I", "I", "I">>)
      s4 == remove(remove(s3, <<"L", "O", "C">>), <<"R", "U", "N", "W", "A", "Y">>)
      s5 == remove(remove(s4, <<"R", "W", "Y">>), <<"R", "W">>)
  IN remove(s5, <<" ">>)

\* IlsWriter::writeObject: the value bound to loc_runway_name for an ILS
\* with a localizer; the empty string stands for NULL
LocRunwayName(sim, runwayName, name) ==
  LET locName == trimmed(runwayName) IN
  IF sim \in {"MSFS", "MSFS_2024"} /\ locName \in {EmptyString, <<"0">>, <<"0", "0">>}
  THEN LET extracted == ExtractRunwayName(name) IN
       IF runwayNameValid(extracted) THEN extracted ELSE EmptyString
  ELSE locName

\* IlsWriter::writeObject: the flag isComplete
IsComplete(hasLoc) == ~hasLoc

\* IlsWriter::writeObject: executeStatement is called
Executes(o, hasLoc) == o.incomplete \/ IsComplete(hasLoc)

NoIls == [called |-> FALSE, ident |-> EmptyString, name |-> EmptyString, hasLoc |-> FALSE,
          runwayName |-> EmptyString, bound |-> EmptyString, written |-> FALSE]

\* IlsWriter::writeObject
\* The writer's next id: "the next surrogate id from a per-table monotone counter"
getNextId(cur) == cur + 1

writeObject ==
  /\ loader = "DataWriter"
  /\ ilsCalls < MaxIls
  /\ ilsCalls' = ilsCalls + 1
  /\ \E ils \in IlsInputs :
       IF ils.ident = EmptyString
       THEN /\ ilsLast' = [called |-> TRUE, ident |-> ils.ident, name |-> ils.name,
                           hasLoc |-> ils.hasLoc, runwayName |-> ils.runwayName,
                           bound |-> EmptyString, written |-> FALSE]
            /\ UNCHANGED <<ilsNextId, ilsRows>>
       ELSE LET id == getNextId(ilsNextId)
                locName == IF ils.hasLoc
                           THEN LocRunwayName(ilsOpts.sim, ils.runwayName, trimmed(ils.name))
                           ELSE EmptyString
                written == Executes(ilsOpts, ils.hasLoc)
            IN /\ ilsNextId' = id
               /\ ilsRows' = IF written
                             THEN Append(ilsRows, [ils_id |-> id, ident |-> trimmed(ils.ident),
                                                   loc_runway_name |-> locName])
                             ELSE ilsRows
               /\ ilsLast' = [called |-> TRUE, ident |-> ils.ident, name |-> ils.name,
                              hasLoc |-> ils.hasLoc, runwayName |-> ils.runwayName,
                              bound |-> locName, written |-> written]
  /\ UNCHANGED <<scVars, bglVars, navVars, pkVars, xpVars, utilVars, ilsOpts>>

IlsIdle ==
  /\ ilsOpts = [sim |-> "FSX", incomplete |-> FALSE]
  /\ ilsCalls = 0
  /\ ilsNextId = 0
  /\ ilsRows = << >>
  /\ ilsLast = NoIls

IlsInit ==
  /\ ilsOpts \in IlsOptions
  /\ ilsCalls = 0
  /\ ilsNextId = 0
  /\ ilsRows = << >>
  /\ ilsLast = NoIls

IlsNext == writeObject

\* ========================================================================
\* Parking (fs/bgl/ap/parking.cpp)

\* The structure types the constructor is called with
StructureTypes == {"STRUCT_FS9", "STRUCT_FSX", "STRUCT_P3DV4", "STRUCT_P3DV5", "STRUCT_MSFS"}

\* An unsigned 32-bit value is kept as its two 16-bit halves
FlagsLow == {0, 20771, 63, 192, 3840, 61440, 65535, 7758}
FlagsHigh == {0, 513, 255, 65280, 65535, 32768}
FlagsWords == [hi : FlagsHigh, lo : FlagsLow]

\* 0x02015123
FlagsWordExample == [hi |-> 513, lo |-> 20771]

\* Values of the suffix byte of an MSFS record
SuffixBytes == {0, 4}

\* The enumerators the string functions have a case for, and one value
\* without a case
ParkingTypes ==
  {"UNKNOWN", "RAMP_GA", "RAMP_GA_SMALL", "RAMP_GA_MEDIUM", "RAMP_GA_LARGE", "RAMP_CARGO",
   "RAMP_MIL_CARGO", "RAMP_MIL_COMBAT", "GATE_SMALL", "GATE_MEDIUM", "GATE_HEAVY", "DOCK_GA",
   "FUEL", "VEHICLES", "RAMP_GA_EXTRA", "GATE_EXTRA", "MSFS_2024_UNKNOWN", "no enumerator"}
GateLetters ==
  {"A", "B", "C", "D", "E", "F", "G", "H", "I", "J", "K", "L", "M", "N", "O", "P", "Q", "R",
   "S", "T", "U", "V", "W", "X", "Y", "Z"}
ParkingNames ==
  {"NO_PARKING", "PARKING", "N_PARKING", "NE_PARKING", "E_PARKING", "SE_PARKING", "S_PARKING",
   "SW_PARKING", "W_PARKING", "NW_PARKING", "GATE", "DOCK", "no enumerator"}
    \cup {"GATE_" \o l : l \in GateLetters}
PushBacks == {"NONE", "LEFT", "RIGHT", "BOTH", "no enumerator"}

\* Parking::parkingTypeToStr
parkingTypeToStr(type) ==
  CASE type = "UNKNOWN" -> "UNKNOWN"
    [] type = "RAMP_GA" -> "RGA"
    [] type = "RAMP_GA_SMALL" -> "RGAS"
    [] type = "RAMP_GA_MEDIUM" -> "RGAM"
    [] type = "RAMP_GA_LARGE" -> "RGAL"
    [] type = "RAMP_CARGO" -> "RC"
    [] type = "RAMP_MIL_CARGO" -> "RMC"
    [] type = "RAMP_MIL_COMBAT" -> "RMCB"
    [] type = "GATE_SMALL" -> "GS"
    [] type = "GATE_MEDIUM" -> "GM"
    [] type = "GATE_HEAVY" -> "GH"
    [] type = "DOCK_GA" -> "DGA"
    [] type = "FUEL" -> "FUEL"
    [] type = "VEHICLES" -> "V"
    [] type = "RAMP_GA_EXTRA" -> "RE"
    [] type = "GATE_EXTRA" -> "GE"
    [] type = "MSFS_2024_UNKNOWN" -> "UNKN"
    [] OTHER -> "INVALID"

\* Parking::parkingNameToStr
parkingNameToStr(type) ==
  CASE type = "NO_PARKING" -> "NONE"
    [] type = "PARKING" -> "P"
    [] type = "N_PARKING" -> "NP"
    [] type = "NE_PARKING" -> "NEP"
    [] type = "E_PARKING" -> "EP"
    [] type = "SE_PARKING" -> "SEP"
    [] type = "S_PARKING" -> "SP"
    [] type = "SW_PARKING" -> "SWP"
    [] type = "W_PARKING" -> "WP"
    [] type = "NW_PARKING" -> "NWP"
    [] type = "GATE" -> "G"
    [] type = "DOCK" -> "D"
    [] \E l \in GateLetters : type = "GATE_" \o l ->
         "G" \o (CHOOSE l \in GateLetters : type = "GATE_" \o l)
    [] OTHER -> "INVALID"

\* Parking::pushBackToStr
pushBackToStr(type) ==
  CASE type = "NONE" -> "NONE"
    [] type = "LEFT" -> "L"
    [] type = "RIGHT" -> "R"
    [] type = "BOTH" -> "B"
    [] OTHER -> "INVALID"

\* The function of the given kind applied to an enumerator
ToStr(kind, enum) ==
  CASE kind = "type" -> parkingTypeToStr(enum)
    [] kind = "name" -> parkingNameToStr(enum)
    [] kind = "pushBack" -> pushBackToStr(enum)

\* w >> n for an unsigned 32-bit w
ShiftRight(w, n) ==
  IF n >= 16
  THEN [hi |-> 0, lo |-> w.hi \div 2^(n - 16)]
  ELSE [hi |-> w.hi \div 2^n, lo |-> (w.lo \div 2^n) + (w.hi % 2^n) * 2^(16 - n)]

\* w & mask for a mask 2^k - 1 below 2^16; the result fits an int
BitAnd(w, mask) == w.lo % (mask + 1)

\* Parking::Parking with a pushback field of one bit
ParkingFieldsOneBitPushBack(flags) ==
  [name |-> BitAnd(flags, 63),
   pushBack |-> BitAnd(ShiftRight(flags, 6), 1),
   type |-> BitAnd(ShiftRight(flags, 8), 15),
   number |-> BitAnd(ShiftRight(flags, 12), 4095),
   numAirlineCodes |-> BitAnd(ShiftRight(flags, 24), 255)]

\* Parking::Parking with pushback and type taken from the third and fourth
\* hexadecimal digit
ParkingFieldsByHexDigit(flags) ==
  [name |-> BitAnd(flags, 63),
   pushBack |-> BitAnd(ShiftRight(flags, 8), 3),
   type |-> BitAnd(ShiftRight(flags, 12), 15),
   number |-> BitAnd(ShiftRight(flags, 12), 4095),
   numAirlineCodes |-> BitAnd(ShiftRight(flags, 24), 255)]

\* Parking::Parking: the fields taken from the flags word
ParkingFields(flags) ==
  [name |-> BitAnd(flags, 63),
   pushBack |-> BitAnd(ShiftRight(flags, 6), 3),
   type |-> BitAnd(ShiftRight(flags, 8), 15),
   number |-> BitAnd(ShiftRight(flags, 12), 4095),
   numAirlineCodes |-> BitAnd(ShiftRight(flags, 24), 255)]

\* A call on the stream; n is the argument of skip and readString
StreamOp(op, n) == [op |-> op, n |-> n]

\* Parking::Parking with the tail of an MSFS record for every structure type
\* but FS9
TailReadsAllButFs9(structureType) ==
  IF structureType # "STRUCT_FS9"
  THEN <<StreamOp("skip", 1), StreamOp("readByte", 0), StreamOp("skip", 18)>>
  ELSE << >>

\* Parking::Parking: the stream calls behind the airline codes
TailReads(structureType) ==
  IF structureType = "STRUCT_P3DV5" THEN <<StreamOp("skip", 4)>>
  ELSE IF structureType = "STRUCT_MSFS"
  THEN <<StreamOp("skip", 1), StreamOp("readByte", 0), StreamOp("skip", 18)>>
  ELSE << >>

\* Parking::Parking: the stream calls in order, for a structure type and a
\* number of airline codes
ParkingReads(structureType, numAirlineCodes) ==
  <<StreamOp("readUInt", 0), StreamOp("readFloat", 0), StreamOp("readFloat", 0)>>
  \o (IF structureType \in {"STRUCT_FSX", "STRUCT_P3DV4", "STRUCT_P3DV5", "STRUCT_MSFS"}
      THEN <<StreamOp("skip", 16)>> ELSE << >>)
  \o <<StreamOp("BglPosition", 0)>>
  \o [i \in 1..numAirlineCodes |-> StreamOp("readString", 4)]
  \o TailReads(structureType)

NoParking == [name |-> 0, pushBack |-> 0, type |-> 0, number |-> 0, numAirlineCodes |-> 0,
              suffixSet |-> FALSE, suffix |-> 0]
NoFlags == [hi |-> 0, lo |-> 0]

\* What is given to the constructor, or to one of the string functions
ParkingInputs ==
  [op : {"decode"}, flags : FlagsWords, structureType : StructureTypes, kind : {"none"},
   enum : {"none"}]
  \cup [op : {"toStr"}, flags : {NoFlags}, structureType : {"STRUCT_FS9"}, kind : {"type"},
        enum : ParkingTypes]
  \cup [op : {"toStr"}, flags : {NoFlags}, structureType : {"STRUCT_FS9"}, kind : {"name"},
        enum : ParkingNames]
  \cup [op : {"toStr"}, flags : {NoFlags}, structureType : {"STRUCT_FS9"}, kind : {"pushBack"},
        enum : PushBacks]

\* Parking::Parking(BinaryStream *stream, StructureType structureType)
ParkingRead ==
  /\ pkPc = "input"
  /\ pkIn.op = "decode"
  /\ LET f == ParkingFields(pkIn.flags) IN
     /\ pkOps' = ParkingReads(pkIn.structureType, f.numAirlineCodes)
     /\ \E b \in SuffixBytes :
          LET assigned == \E i \in DOMAIN TailReads(pkIn.structureType) :
                             TailReads(pkIn.structureType)[i].op = "readByte"
          IN parking' = [name |-> f.name, pushBack |-> f.pushBack, type |-> f.type,
                         number |-> f.number, numAirlineCodes |-> f.numAirlineCodes,
                         suffixSet |-> assigned,
                         suffix |-> IF assigned THEN b ELSE 0]
  /\ pkPc' = "done"
  /\ UNCHANGED <<scVars, bglVars, navVars, ilsVars, xpVars, utilVars, pkIn, pkStr>>

\* A call of parkingTypeToStr, parkingNameToStr or pushBackToStr
ParkingToStr ==
  /\ pkPc = "input"
  /\ pkIn.op = "toStr"
  /\ pkStr' = ToStr(pkIn.kind, pkIn.enum)
  /\ pkPc' = "done"
  /\ UNCHANGED <<scVars, bglVars, navVars, ilsVars, xpVars, utilVars, pkIn, parking, pkOps>>

PkIdle ==
  /\ pkPc = "input"
  /\ pkIn = [op |-> "decode", flags |-> NoFlags, structureType |-> "STRUCT_FS9",
             kind |-> "none", enum |-> "none"]
  /\ parking = NoParking
  /\ pkOps = << >>
  /\ pkStr = ""

PkInit ==
  /\ pkPc = "input"
  /\ pkIn \in ParkingInputs
  /\ parking = NoParking
  /\ pkOps = << >>
  /\ pkStr = ""

PkNext ==
  \/ ParkingRead
  \/ ParkingToStr

\* ========================================================================
\* XpFixReader and XpAirportMsaReader (fs/xp)

MaxXpLines == 3

\* A reader that binds the id of the row before without counting up
NextRowIdSame(cur) == cur

\* ++curFixId and ++curMsaId
NextRowId(cur) == cur + 1

\* Where reading a field of a line that is too short ends XpFixReader::read:
\* nowhere, at the position (before the id is taken) or at the ident (after it)
XpFixFailures == {"none", "position", "ident"}

\* The readers in the order the compiler gives them their files
XpFileOrder == <<"fix", "msa", "mora">>

\* What the compiler does with a line whose read has thrown: "all text readers
\* tolerate and skip malformed lines with a warning; they never abort the file"
LineError(reader, line, input, text) ==
  [reader |-> reader, line |-> line, input |-> input, outcome |-> "exception",
   warnings |-> <<text>>]

NoLine == [reader |-> "none", line |-> 0, input |-> "none", outcome |-> "none",
           warnings |-> << >>]

\* XpFixReader::read: a line of a fix file is written as a waypoint
XpFixRead ==
  /\ loader = "XpDataCompiler"
  /\ xpFile = "fix"
  /\ xpFixLines < MaxXpLines
  /\ xpFixLines' = xpFixLines + 1
  /\ \E failure \in XpFixFailures :
       /\ curFixId' = IF failure = "position" THEN curFixId ELSE NextRowId(curFixId)
       /\ waypointRows' = IF failure = "none"
                          THEN Append(waypointRows, [waypoint_id |-> curFixId', line |-> xpFixLines'])
                          ELSE waypointRows
       /\ xpLast' = IF failure = "none"
                    THEN [reader |-> "fix", line |-> xpFixLines', input |-> failure,
                          outcome |-> "row", warnings |-> << >>]
                    ELSE LineError("fix", xpFixLines', failure, "Index out of bounds")
  /\ UNCHANGED <<scVars, bglVars, navVars, ilsVars, pkVars, utilVars, loader, xpFile, curMsaId, msaRows,
                 xpMsaLines, moraLines, xpMoraLines>>

\* Bound of the model: sector triples of an MSA line
MaxTriples == 3

\* Bearing, altitude in hundreds of feet and radius of a sector; all zero ends the list
ZeroTriple == [brg |-> 0, alt |-> 0, r |-> 0]
Triples ==
  { ZeroTriple, [brg |-> 270, alt |-> 76, r |-> 25], [brg |-> 90, alt |-> 53, r |-> 25],
    [brg |-> 110, alt |-> 63, r |-> 30], [brg |-> 180, alt |-> 40, r |-> 0] }
TripleLists == UNION {[1..n -> Triples] : n \in 0..MaxTriples}

\* The sector loop of XpAirportMsaReader::read: triples are added up to the
\* first all-zero one; the first radius above zero is kept, another one warns;
\* tokens behind the last full triple end the loop with the exception of at()
RECURSIVE MsaSectors(_, _, _, _)
MsaSectors(triples, extra, i, acc) ==
  IF i > Len(triples)
  THEN [acc EXCEPT !.exception = extra > 0]
  ELSE IF triples[i] = ZeroTriple THEN acc
  ELSE MsaSectors(triples, extra, i + 1,
         [acc EXCEPT !.sectors = Append(@, [brg |-> triples[i].brg, alt |-> triples[i].alt * 100]),
                     !.added = Append(@, i),
                     !.radius = IF ~(@ > 0) THEN triples[i].r ELSE @,
                     !.warnings = IF acc.radius > 0 /\ triples[i].r # acc.radius
                                  THEN Append(@, "More than one radius found") ELSE @])

NoSectors == [sectors |-> << >>, added |-> << >>, radius |-> 0, warnings |-> << >>,
              exception |-> FALSE]

\* XpAirportMsaReader::read of one line: what happens to it, the warnings and
\* the sectors and radius bound to the row
MsaLineRead(line) ==
  LET geo == MsaSectors(line.triples, line.extra, 1, NoSectors) IN
  IF line.short
  THEN [outcome |-> "exception", warnings |-> << >>, geo |-> NoSectors]
  ELSE IF ~line.airportKnown
  THEN [outcome |-> "no airport", warnings |-> << >>, geo |-> NoSectors]
  ELSE IF ~line.centerValid
  THEN [outcome |-> "no center", warnings |-> <<"Invalid MSA center coordinate">>, geo |-> NoSectors]
  ELSE IF geo.exception
  THEN [outcome |-> "exception", warnings |-> geo.warnings, geo |-> geo]
  ELSE IF line.geoValid
  THEN [outcome |-> "row", warnings |-> geo.warnings, geo |-> geo]
  ELSE [outcome |-> "no geometry", warnings |-> Append(geo.warnings, "Invalid MSA geometry"),
        geo |-> geo]

\* 3 BSA DA DAAD M 270 076 25 090 053 25 000 000 0
MsaLineExample ==
  [short |-> FALSE, airportKnown |-> TRUE, centerValid |-> TRUE, geoValid |-> TRUE, extra |-> 0,
   triples |-> <<[brg |-> 270, alt |-> 76, r |-> 25], [brg |-> 90, alt |-> 53, r |-> 25],
                 ZeroTriple>>]

\* The example line, and the same line too short, with an unknown airport, with
\* an unresolvable center and with an invalid geometry
MsaLineExamples ==
  { MsaLineExample, [MsaLineExample EXCEPT !.short = TRUE],
    [MsaLineExample EXCEPT !.airportKnown = FALSE], [MsaLineExample EXCEPT !.centerValid = FALSE],
    [MsaLineExample EXCEPT !.geoValid = FALSE] }

\* XpAirportMsaReader::read: a line is written if its airport is known, the
\* center fix has a valid position and the geometry is valid
XpMsaRead ==
  /\ loader = "XpDataCompiler"
  /\ xpFile = "msa"
  /\ xpMsaLines < MaxXpLines
  /\ xpMsaLines' = xpMsaLines + 1
  /\ \E line \in MsaLineExamples :
       LET read == MsaLineRead(line) IN
       /\ xpLast' = IF read.outcome = "exception"
                    THEN LineError("msa", xpMsaLines', line, "Index out of bounds")
                    ELSE [reader |-> "msa", line |-> xpMsaLines', input |-> line,
                          outcome |-> read.outcome, warnings |-> read.warnings]
       /\ IF read.outcome = "row"
          THEN /\ curMsaId' = NextRowId(curMsaId)
               /\ msaRows' = Append(msaRows, [airport_msa_id |-> curMsaId', line |-> xpMsaLines'])
          ELSE UNCHANGED <<curMsaId, msaRows>>
  /\ UNCHANGED <<scVars, bglVars, navVars, ilsVars, pkVars, utilVars, loader, xpFile, curFixId,
                 waypointRows, xpFixLines, moraLines, xpMoraLines>>

\* Token counts of the lines of a MORA file
MoraLineSizes == {0, 31, 32, 33}
MoraLineSize == 32

\* A reader that keeps every line
MoraKeptAlways(size) == TRUE

\* if(line.size() == 32)
MoraKept(size) == size = MoraLineSize

\* XpMoraReader::read: a line of 32 tokens is kept for finish, any other is dropped
XpMoraRead ==
  /\ loader = "XpDataCompiler"
  /\ xpFile = "mora"
  /\ xpMoraLines < MaxXpLines
  /\ xpMoraLines' = xpMoraLines + 1
  /\ \E size \in MoraLineSizes :
       /\ moraLines' = IF MoraKept(size) THEN Append(moraLines, xpMoraLines') ELSE moraLines
       /\ xpLast' = [reader |-> "mora", line |-> xpMoraLines', input |-> size,
                     outcome |-> IF MoraKept(size) THEN "row" ELSE "dropped",
                     warnings |-> << >>]
  /\ UNCHANGED <<scVars, bglVars, navVars, ilsVars, pkVars, utilVars, loader, xpFile, curFixId,
                 waypointRows, xpFixLines, curMsaId, msaRows, xpMsaLines>>

\* The compiler goes on to the file of a later reader
XpNextFile ==
  /\ loader = "XpDataCompiler"
  /\ \E i \in DOMAIN XpFileOrder, j \in DOMAIN XpFileOrder :
       /\ xpFile = XpFileOrder[i]
       /\ i < j
       /\ xpFile' = XpFileOrder[j]
  /\ UNCHANGED <<scVars, bglVars, navVars, ilsVars, pkVars, utilVars, loader, curFixId, waypointRows,
                 xpFixLines, curMsaId, msaRows, xpMsaLines, moraLines, xpMoraLines, xpLast>>

\* No X-Plane reader exists: the run reads BGL files with a DataWriter
XpIdle ==
  /\ loader = "DataWriter"
  /\ xpFile = "none"
  /\ curFixId = 0
  /\ waypointRows = << >>
  /\ curMsaId = 0
  /\ msaRows = << >>
  /\ xpFixLines = 0
  /\ xpMsaLines = 0
  /\ moraLines = << >>
  /\ xpMoraLines = 0
  /\ xpLast = NoLine

\* A run has created its DataWriter, or its XpDataCompiler that is at a file
XpInit ==
  /\ loader \in {"DataWriter", "XpDataCompiler"}
  /\ xpFile \in IF loader = "DataWriter" THEN {"none"}
                ELSE {XpFileOrder[i] : i \in DOMAIN XpFileOrder}
  /\ curFixId = 0
  /\ waypointRows = << >>
  /\ curMsaId = 0
  /\ msaRows = << >>
  /\ xpFixLines = 0
  /\ xpMsaLines = 0
  /\ moraLines = << >>
  /\ xpMoraLines = 0
  /\ xpLast = NoLine

\* The lines of one file given to its reader
XpNext ==
  \/ XpFixRead
  \/ XpMsaRead
  \/ XpMoraRead

\* The writers of one run that number their rows
IdsNext ==
  \/ writeObject
  \/ XpFixRead
  \/ XpMsaRead
  \/ XpNextFile

\* ========================================================================
\* Functions whose result depends on their arguments only (fs/util/fsutil.cpp,
\* NavDatabase::readSceneryConfig), called with one argument list at a time;
\* a QString of the waypoint flags functions is the sequence of its QChar codes

\* No function is called
NoCall == [fn |-> "none"]
NoResult == [done |-> FALSE]

UtilIdle ==
  /\ utilArg = NoCall
  /\ utilRes = NoResult

\* Codes of the characters the flags functions look at
CodeSpace == 32
CodeQuote == 34
CodeZero == 48
CodeNine == 57
CodeUnderscore == 95

\* A 32 bit unsigned value in two halves of 16 bits, value = hi * 65536 + lo
Half == 65536
Byte == 256

\* One more decimal digit behind a 32 bit value; ok turns FALSE on overflow
AddDigit(v, digit) ==
  LET low == v.lo * 10 + digit
      high == v.hi * 10 + (low \div Half)
  IN [ok |-> v.ok /\ high < Half, hi |-> high % Half, lo |-> low % Half]

RECURSIVE ParseDigits(_, _)
ParseDigits(s, v) ==
  IF s = << >> THEN v
  ELSE IF Head(s) < CodeZero \/ Head(s) > CodeNine THEN [v EXCEPT !.ok = FALSE]
  ELSE ParseDigits(Tail(s), AddDigit(v, Head(s) - CodeZero))

\* QString::toUInt(&ok) in base 10: digits only, at least one, value below 2^32
toUInt(s) ==
  IF s = << >> THEN [ok |-> FALSE, hi |-> 0, lo |-> 0]
  ELSE ParseDigits(s, [ok |-> TRUE, hi |-> 0, lo |-> 0])

\* QString::number of an unsigned value: decimal digits, no leading zero
RECURSIVE number(_)
number(n) ==
  IF n < 10 THEN <<CodeZero + n>>
  ELSE Append(number(n \div 10), CodeZero + (n % 10))

\* atools::strToUChar: the Latin-1 code of the character at an index
strToUChar(str, index) == str[index + 1] % Byte

\* QString::replace(QChar before, QChar after)
replace(str, before, after) == [i \in DOMAIN str |-> IF str[i] = before THEN after ELSE str[i]]

\* A decoder that takes the value as big endian: the highest of the three bytes first
waypointFlagsFromXplaneBigEndian(flags, defaultValue) ==
  LET u == toUInt(flags)
  IN IF u.ok THEN defaultValue \o <<u.hi % Byte, u.lo \div Byte, u.lo % Byte>>
     ELSE defaultValue

\* waypointFlagsFromXplane: byte i of the little endian value is appended if it is above i
waypointFlagsFromXplane(flags, defaultValue) ==
  LET u == toUInt(flags)
      byteValue == <<u.lo % Byte, u.lo \div Byte, u.hi % Byte, u.hi \div Byte>>
      kept == SelectSeq(<<1, 2, 3, 4>>, LAMBDA i : byteValue[i] > i - 1)
  IN IF u.ok THEN defaultValue \o [k \in 1..Len(kept) |-> byteValue[kept[k]]]
     ELSE defaultValue

\* waypointFlagsToXplane: three characters are packed into the low three bytes
waypointFlagsToXplane(flags, defaultValue) ==
  LET str == remove(replace(flags, CodeUnderscore, CodeSpace), <<CodeQuote>>)
  IN IF Len(str) # 3 THEN defaultValue
     ELSE number(strToUChar(str, 0) + Byte * strToUChar(str, 1) + Byte * Byte * strToUChar(str, 2))

\* ---- runway names (strings are sequences of characters) ----

startsWith(s, sub) == Len(s) >= Len(sub) /\ SubSeq(s, 1, Len(sub)) = sub
endsWith(s, sub) == Len(s) >= Len(sub) /\ SubSeq(s, Len(s) - Len(sub) + 1, Len(s)) = sub
mid(s, position) == SubSeq(s, position + 1, Len(s))
chop(s, n) == SubSeq(s, 1, Len(s) - n)

\* runwayFlags that leaves the suffix T at the name
runwayFlagsKeepSuffix(runway) ==
  LET prefixRw == startsWith(runway, <<"R", "W">>)
      r1 == IF prefixRw THEN mid(runway, 2) ELSE runway
      suffixTrue == endsWith(r1, <<"T">>)
      r2 == IF suffixTrue THEN chop(r1, 1) ELSE r1
      noPrefixNull == Len(r2) = 1 \/ (Len(r2) = 2 /\ r2[2] \notin Digits)
      r3 == IF noPrefixNull THEN <<"0">> \o r2 ELSE r2
  IN IF runway = EmptyString THEN EmptyString
     ELSE toUpper(IF suffixTrue THEN r3 \o <<"T">> ELSE r3)

\* runwayFlags: the name without the prefix RW and the suffix T, with a zero
\* in front of a single digit, in upper case (the flags are not used here)
runwayFlags(runway) ==
  LET prefixRw == startsWith(runway, <<"R", "W">>)
      r1 == IF prefixRw THEN mid(runway, 2) ELSE runway
      suffixTrue == endsWith(r1, <<"T">>)
      r2 == IF suffixTrue THEN chop(r1, 1) ELSE r1
      noPrefixNull == Len(r2) = 1 \/ (Len(r2) = 2 /\ r2[2] \notin Digits)
      r3 == IF noPrefixNull THEN <<"0">> \o r2 ELSE r2
  IN IF runway = EmptyString THEN EmptyString ELSE toUpper(r3)

normalizeRunway(runway) == runwayFlags(runway)

DigitChars == <<"0", "1", "2", "3", "4", "5", "6", "7", "8", "9">>

\* A runway number with and without a zero in front
NumberShort(n) ==
  IF n < 10 THEN <<DigitChars[n + 1]>> ELSE <<DigitChars[(n \div 10) + 1], DigitChars[(n % 10) + 1]>>
NumberLong(n) == <<DigitChars[(n \div 10) + 1], DigitChars[(n % 10) + 1]>>

RunwayNumbers == 0..37
RunwayPrefixes == {EmptyString, <<"R", "W">>}
RunwayDesignators == {EmptyString, <<"L">>, <<"R">>, <<"C">>, <<"W">>, <<"A">>, <<"B">>, <<"l">>, <<"X">>}
RunwaySuffixes == {EmptyString, <<"T">>}

\* Runway names: valid ones, numbers out of range, unknown designators, lower
\* case, the empty name and names without a number
RunwayNames ==
  { p \o n \o g \o t :
      <<p, n, g, t>> \in RunwayPrefixes
                         \X ({NumberShort(k) : k \in RunwayNumbers} \cup {NumberLong(k) : k \in RunwayNumbers})
                         \X RunwayDesignators \X RunwaySuffixes }
  \cup {EmptyString, <<"T">>, <<"R", "W">>, <<"R", "W", "T">>}

\* The names of the example list: RW1, 01, 1L, RW01LT, RW1T
RunwayNameExamples ==
  { <<"R", "W", "1">>, <<"0", "1">>, <<"1", "L">>, <<"R", "W", "0", "1", "L", "T">>,
    <<"R", "W", "1", "T">> }

NormalizeRunway ==
  /\ utilArg.fn = "normalizeRunway"
  /\ ~utilRes.done
  /\ utilRes' = [done |-> TRUE, runway |-> normalizeRunway(utilArg.runway)]
  /\ UNCHANGED <<scVars, bglVars, navVars, ilsVars, pkVars, xpVars, utilArg>>
\* QString::toInt of one or two digits
DigitValue(c) == CHOOSE k \in 0..9 : DigitChars[k + 1] = c
toInt(s) == IF Len(s) = 1 THEN DigitValue(s[1]) ELSE 10 * DigitValue(s[1]) + DigitValue(s[2])

\* runwayNameSplit(name, &number, &designator): number 0 and the designator
\* left empty when the name does not match
runwayNameSplitInt(name) ==
  LET rwname == IF startsWith(name, <<"R", "W">>) THEN mid(name, 2) ELSE name
      Matches(d, g, t) ==
        /\ Len(rwname) = d + g + t
        /\ \A i \in 1..d : rwname[i] \in Digits
        /\ g = 1 => rwname[d + 1] \in Designators
        /\ t = 1 => rwname[d + g + 1] = "T"
      Shapes == {sh \in (1..2) \X (0..1) \X (0..1) : Matches(sh[1], sh[2], sh[3])}
  IN IF Shapes = {} THEN [number |-> 0, designator |-> EmptyString]
     ELSE LET sh == CHOOSE x \in Shapes : \A y \in Shapes : x[1] >= y[1]
          IN [number |-> toInt(SubSeq(rwname, 1, sh[1])),
              designator |-> SubSeq(rwname, sh[1] + 1, sh[1] + sh[2])]

\* runwayNameJoin: the number with two digits and the designator
runwayNameJoin(n, designator) == NumberLong(n) \o designator

\* runwayNameVariants: the name without prefix and suffix comes first, then
\* the next higher and the next lower number with prefix and suffix
runwayNameVariants(nameParam) ==
  LET hasPrefix == startsWith(nameParam, <<"R", "W">>)
      prefix == IF hasPrefix THEN <<"R", "W">> ELSE EmptyString
      n1 == IF hasPrefix THEN mid(nameParam, 2) ELSE nameParam
      hasSuffix == endsWith(n1, <<"T">>)
      suffix == IF hasSuffix THEN <<"T">> ELSE EmptyString
      name == IF hasSuffix THEN chop(n1, 1) ELSE n1
      split == runwayNameSplitInt(name)
  IN << name,
        prefix \o runwayNameJoin(IF split.number < 36 THEN split.number + 1 ELSE 1,
                                 split.designator) \o suffix,
        prefix \o runwayNameJoin(IF split.number > 1 THEN split.number - 1 ELSE 36,
                                 split.designator) \o suffix >>

RunwayNameVariants ==
  /\ utilArg.fn = "runwayNameVariants"
  /\ ~utilRes.done
  /\ utilRes' = [done |-> TRUE, variants |-> runwayNameVariants(utilArg.runway)]
  /\ UNCHANGED <<scVars, bglVars, navVars, ilsVars, pkVars, xpVars, utilArg>>
\* ---- speed and altitude items; numbers are fractions num / den ----

\* A non-negative fraction rounded to an integer; both neighbors at a tie
RoundFixed(num, den) ==
  LET q == num \div den
      r == num % den
  IN IF 2 * r < den THEN {q} ELSE IF 2 * r > den THEN {q + 1} ELSE {q, q + 1}

RECURSIVE DecimalChars(_)
DecimalChars(n) ==
  IF n < 10 THEN <<DigitChars[n + 1]>>
  ELSE Append(DecimalChars(n \div 10), DigitChars[(n % 10) + 1])

RECURSIVE FillZero(_, _)
FillZero(s, width) == IF Len(s) >= width THEN s ELSE FillZero(<<"0">> \o s, width)

\* QString::arg(value, fieldWidth, 'f', 0, QChar('0'))
argFixed(num, den, fieldWidth) == {FillZero(DecimalChars(n), fieldWidth) : n \in RoundFixed(num, den)}

RECURSIVE DigitsValue(_)
DigitsValue(s) ==
  IF s = << >> THEN 0 ELSE 10 * DigitsValue(SubSeq(s, 1, Len(s) - 1)) + DigitValue(s[Len(s)])

\* atools::geo: 1 ft = 0.3048 m = 381/1250 m; 1 kt = 1.852 km/h = 463/250 km/h;
\* meters per nautical mile, an eighth of it in thousandths
FeetNum == 381
FeetDen == 1250
KmhNum == 463
KmhDen == 250
NmEighths == {231500, 231527}
KmEighth == 125000
TransitionFeet == 18000

\* createSpeedAndAltitude that writes the speed with three digits, in tens
createSpeedAndAltitudeTens(speedKts, altFeet, metricSpeed, metricAlt) ==
  LET speeds == IF metricSpeed
                THEN {<<"K">> \o n : n \in argFixed(speedKts * KmhNum, KmhDen * 10, 3)}
                ELSE {<<"N">> \o n : n \in argFixed(speedKts, 10, 3)}
  IN {s \o a : <<s, a>> \in speeds \X argFixed(altFeet, 100, 3)}

\* createSpeedAndAltitude: the items it can return (two at a rounding tie);
\* the metric branch compares the feet with feetToMeter(18000)
createSpeedAndAltitude(speedKts, altFeet, metricSpeed, metricAlt) ==
  LET speeds == IF metricSpeed
                THEN {<<"K">> \o n : n \in argFixed(speedKts * KmhNum, KmhDen, 4)}
                ELSE {<<"N">> \o n : n \in argFixed(speedKts, 1, 4)}
      alts == IF metricAlt
              THEN IF altFeet * FeetDen < TransitionFeet * FeetNum
                   THEN {<<"M">> \o n : n \in argFixed(altFeet * FeetNum, FeetDen * 10, 4)}
                   ELSE {<<"S">> \o n : n \in argFixed(altFeet * FeetNum, FeetDen * 10, 3)}
              ELSE IF altFeet < TransitionFeet
                   THEN {<<"A">> \o n : n \in argFixed(altFeet, 100, 3)}
                   ELSE {<<"F">> \o n : n \in argFixed(altFeet, 100, 3)}
  IN {s \o a : <<s, a>> \in speeds \X alts}

\* REGEXP_SPDALT: ^([NMK])(\d{2,4})(([FSAM])(\d{2,4}))?$
MatchSpdAlt(item) ==
  LET AllDigits(from, to) == \A i \in from..to : item[i] \in Digits
      Shapes == {sh \in (2..4) \X (0..4) :
                   /\ sh[2] # 1
                   /\ Len(item) = 1 + sh[1] + (IF sh[2] = 0 THEN 0 ELSE 1 + sh[2])
                   /\ item[1] \in {"N", "M", "K"}
                   /\ AllDigits(2, 1 + sh[1])
                   /\ sh[2] # 0 => /\ item[2 + sh[1]] \in {"F", "S", "A", "M"}
                                   /\ AllDigits(3 + sh[1], 2 + sh[1] + sh[2])}
  IN IF Shapes = {} THEN [hasMatch |-> FALSE]
     ELSE LET sh == CHOOSE x \in Shapes : TRUE
          IN [hasMatch |-> TRUE,
              speedUnit |-> item[1],
              speed |-> DigitsValue(SubSeq(item, 2, 1 + sh[1])),
              altUnit |-> IF sh[2] = 0 THEN "" ELSE item[2 + sh[1]],
              altOk |-> sh[2] # 0,
              alt |-> IF sh[2] = 0 THEN 0
                      ELSE DigitsValue(SubSeq(item, 3 + sh[1], 2 + sh[1] + sh[2]))]

\* extractSpeedAndAltitude: the return value, speedKnots and altFeet as
\* fractions; a Mach speed is kept as the call machToTasFromAlt would get
extractSpeedAndAltitude(item, nmEighth) ==
  LET m == MatchSpdAlt(item) IN
  IF ~m.hasMatch
  THEN [ok |-> FALSE, speedKnots |-> [num |-> 0, den |-> 1], altFeet |-> [num |-> 0, den |-> 1]]
  ELSE LET altFeet ==
             IF m.altUnit \in {"F", "A"}
             THEN [num |-> IF m.alt >= 1000 THEN m.alt ELSE m.alt * 100, den |-> 1]
             ELSE IF m.altUnit \in {"S", "M"}
             THEN [num |-> m.alt * 10 * FeetDen, den |-> FeetNum]
             ELSE [num |-> 0, den |-> 1]
           altOk == m.altOk /\ m.altUnit \in {"F", "S", "A", "M"}
           speedKnots ==
             IF m.speedUnit = "K" THEN [num |-> m.speed * KmEighth, den |-> nmEighth]
             ELSE IF m.speedUnit = "N" THEN [num |-> m.speed, den |-> 1]
             ELSE [num |-> m.speed, den |-> 100, mach |-> TRUE]
       IN [ok |-> altOk, speedKnots |-> speedKnots, altFeet |-> altFeet]

SpeedsKnots == {0, 1, 120, 250, 490, 999, 1000, 5399, 5400, 9999, 10000} \cup {317 * k : k \in 1..16}
AltitudesFeet ==
  {0, 49, 50, 51, 99, 100, 5486, 5487, 17949, 17950, 17999, 18000, 18050, 32808, 99949,
   99950, 100000} \cup {1650 * k + 7 : k \in 1..59}

\* createSpeedAndAltitude, then extractSpeedAndAltitude of the item
SpeedAndAltitudeRoundTrip ==
  /\ utilArg.fn = "speedAndAltitude"
  /\ ~utilRes.done
  /\ \E item \in createSpeedAndAltitude(utilArg.speedKts, utilArg.altFeet,
                                       utilArg.metricSpeed, utilArg.metricAlt) :
       LET r == extractSpeedAndAltitude(item, utilArg.nmEighth)
       IN utilRes' = [done |-> TRUE, item |-> item, ok |-> r.ok,
                      speedKnots |-> r.speedKnots, altFeet |-> r.altFeet]
  /\ UNCHANGED <<scVars, bglVars, navVars, ilsVars, pkVars, xpVars, utilArg>>
\* ---- NavDatabase::readSceneryConfig (fs/navdatabase.cpp) ----

\* std::numeric_limits<int>::min()
INT_MIN == -2147483647 - 1

\* An add-on component without a layer (AddOnComponent::getLayer)
NoLayer == -1

CfgSims == {"FSX", "P3D_V3", "P3D_V4"}
CfgAreaNumbers == {1, 7}
CfgLayers == {3, 7}
ComponentLayers == {NoLayer, 2, 9}
MaxCfgAreas == 2
MaxComponents == 3

\* Areas of scenery.cfg as cfg.read leaves them; component 0 marks an area
\* that is no add-on component
CfgAreas ==
  UNION {[1..n -> [areaNumber : CfgAreaNumbers, layer : CfgLayers, component : {0}]] :
           n \in 0..MaxCfgAreas}

\* The layers of the add-on components in the order they are found
ComponentLists == UNION {[1..n -> ComponentLayers] : n \in 0..MaxComponents}

MaxOf(numbers, least) == IF numbers = {} THEN least ELSE CHOOSE m \in numbers : \A k \in numbers : k <= m

\* The loop over the components: every component takes an area number, the
\* ones with a layer are appended at once
RECURSIVE AppendLayered(_, _, _, _)
AppendLayered(areas, components, i, areaNum) ==
  IF i > Len(components) THEN areas
  ELSE AppendLayered(IF components[i] = NoLayer THEN areas
                     ELSE Append(areas, [areaNumber |-> areaNum + 1, layer |-> components[i],
                                         component |-> i]),
                     components, i + 1, areaNum + 1)

\* SceneryCfg::sortAreas: by layer, areas of one layer in any order
sortAreas(areas) ==
  { [i \in DOMAIN areas |-> areas[p[i]]] : p \in
      {q \in Permutations(DOMAIN areas) :
         \A i, j \in DOMAIN areas : i < j => areas[q[i]].layer <= areas[q[j]].layer} }

\* Components without layer that all get the layer behind the highest one
RECURSIVE AppendNoLayerOneLayer(_, _, _, _, _)
AppendNoLayerOneLayer(areas, components, i, lastArea, lastLayer) ==
  IF i > Len(components) THEN areas
  ELSE IF components[i] # NoLayer
  THEN AppendNoLayerOneLayer(areas, components, i + 1, lastArea, lastLayer)
  ELSE AppendNoLayerOneLayer(Append(areas, [areaNumber |-> lastArea + 1, layer |-> lastLayer + 1,
                                            component |-> i]),
                             components, i + 1, lastArea + 1, lastLayer)

\* The last loop: SceneryArea(++lastArea, ++lastLayer, ...) for the components without layer
RECURSIVE AppendNoLayer(_, _, _, _, _)
AppendNoLayer(areas, components, i, lastArea, lastLayer) ==
  IF i > Len(components) THEN areas
  ELSE IF components[i] # NoLayer
  THEN AppendNoLayer(areas, components, i + 1, lastArea, lastLayer)
  ELSE AppendNoLayer(Append(areas, [areaNumber |-> lastArea + 1, layer |-> lastLayer + 1,
                                    component |-> i]),
                     components, i + 1, lastArea + 1, lastLayer + 1)

\* readSceneryConfig: the area lists it can leave in cfg
readSceneryConfig(sim, readAddOnXml, cfgAreas, components) ==
  IF readAddOnXml /\ sim \in {"P3D_V3", "P3D_V4"}
  THEN LET areaNum == MaxOf({cfgAreas[i].areaNumber : i \in DOMAIN cfgAreas}, INT_MIN)
           layered == AppendLayered(cfgAreas, components, 1, areaNum)
       IN { AppendNoLayer(sorted, components, 1,
                          MaxOf({sorted[i].areaNumber : i \in DOMAIN sorted}, INT_MIN),
                          MaxOf({sorted[i].layer : i \in DOMAIN sorted}, INT_MIN)) :
              sorted \in sortAreas(layered) }
  ELSE {cfgAreas}

ReadSceneryConfig ==
  /\ utilArg.fn = "readSceneryConfig"
  /\ ~utilRes.done
  /\ \E areas \in readSceneryConfig(utilArg.sim, utilArg.readAddOnXml, utilArg.areas,
                                    utilArg.components) :
       utilRes' = [done |-> TRUE, areas |-> areas]
  /\ UNCHANGED <<scVars, bglVars, navVars, ilsVars, pkVars, xpVars, utilArg>>
\* ---- XpAirportMsaReader::read of one line with its sector triples ----

\* MSA lines whose airport and center resolve, with every list of triples, and
\* the example lines
MsaLines ==
  [short : {FALSE}, airportKnown : {TRUE}, centerValid : {TRUE}, geoValid : BOOLEAN,
   extra : {0, 1}, triples : TripleLists]
  \cup MsaLineExamples

MsaRead ==
  /\ utilArg.fn = "msaRead"
  /\ ~utilRes.done
  /\ utilRes' = [done |-> TRUE, read |-> MsaLineRead(utilArg.line)]
  /\ UNCHANGED <<scVars, bglVars, navVars, ilsVars, pkVars, xpVars, utilArg>>
\* Bytes of the flags words given to the functions: letters, space, underscore,
\* quote and the small values the decoder compares with
FlagBytes == {0, 1, 2, 3, 32, 34, 65, 73, 82, 86, 95}

\* A decimal string filled with zeros at the left up to a width
RECURSIVE PadLeft(_, _)
PadLeft(s, width) == IF Len(s) >= width THEN s ELSE PadLeft(<<CodeZero>> \o s, width)

FlagWidths == {1, 10}

\* 4294967295, 4294967296, 1095914066 (bytes R I R A), "x" and the empty string
FlagSpecials ==
  { <<52, 50, 57, 52, 57, 54, 55, 50, 57, 53>>, <<52, 50, 57, 52, 57, 54, 55, 50, 57, 54>>,
    <<49, 48, 57, 53, 57, 49, 52, 48, 54, 54>>, <<120>>, << >> }

FlagInputs ==
  { PadLeft(number(b0 + Byte * b1 + Byte * Byte * b2), w) :
      <<b0, b1, b2, w>> \in FlagBytes \X FlagBytes \X FlagBytes \X FlagWidths }
  \cup FlagSpecials

UtilInputs ==
  [fn : {"waypointFlags"}, flags : FlagInputs]
  \cup [fn : {"normalizeRunway", "runwayNameVariants"}, runway : RunwayNames]
  \cup [fn : {"speedAndAltitude"}, speedKts : SpeedsKnots, altFeet : AltitudesFeet,
         metricSpeed : BOOLEAN, metricAlt : BOOLEAN, nmEighth : NmEighths]
  \cup [fn : {"readSceneryConfig"}, sim : CfgSims, readAddOnXml : BOOLEAN, areas : CfgAreas,
         components : ComponentLists]
  \cup [fn : {"msaRead"}, line : MsaLines]

\* waypointFlagsToXplane(waypointFlagsFromXplane(flags)), both with the empty default
WaypointFlagsRoundTrip ==
  /\ utilArg.fn = "waypointFlags"
  /\ ~utilRes.done
  /\ LET arincType == waypointFlagsFromXplane(utilArg.flags, << >>)
     IN utilRes' = [done |-> TRUE, arincType |-> arincType,
                    flags |-> waypointFlagsToXplane(arincType, << >>)]
  /\ UNCHANGED <<scVars, bglVars, navVars, ilsVars, pkVars, xpVars, utilArg>>

UtilInit ==
  /\ utilArg \in UtilInputs
  /\ utilRes = NoResult

UtilNext ==
  \/ WaypointFlagsRoundTrip
  \/ NormalizeRunway
  \/ RunwayNameVariants
  \/ SpeedAndAltitudeRoundTrip
  \/ ReadSceneryConfig
  \/ MsaRead

\* ========================================================================
\* SimConnectData (fs/sc/simconnectdata.cpp): one object that reads a packet
\* from a device whose bytes arrive in chunks

\* Bounds of the model: read calls on the object, bytes waiting in the device
MaxScCalls == 4
MaxAvailable == 25

\* sizeof(magicNumber), sizeof(packetSize): a quint32 in the stream
WordSize == 4

\* The magic number and the version of a data packet; the model needs only
\* that they differ from each other, from zero and from the sizes
MAGIC_NUMBER_DATA == 1234567
DATA_VERSION == 11

\* The bytes of a packet behind its size that has no user aircraft, no AI
\* aircraft and no METAR: version, packetId and ts of four bytes each, hasUser
\* of one, numAi and numMetar of two each
EmptyPacketSize == 17

\* The values of status
ScStatus == {"OK", "INVALID_MAGIC_NUMBER", "VERSION_MISMATCH"}

\* The 32-bit words a peer may send: zero, a packet size, the version and the
\* magic number; any of them can stand at any place of the stream
Words == {0, EmptyPacketSize, DATA_VERSION, MAGIC_NUMBER_DATA}

\* Bytes that arrive at the device in one piece
Chunks == {1, 4, 17}

\* in >> word: the next four bytes; a stream with less gives zero and is empty
ReadWord(avail, word) ==
  IF avail >= WordSize THEN [value |-> word, avail |-> avail - WordSize]
  ELSE [value |-> 0, avail |-> 0]

\* What a call of read leaves: the fields of the object, the bytes left in the
\* device, the result, whether a magic number was read and tested, and the
\* bytes that were available when the packet size was tested
ScReturn(o, avail, result, state, checked, atTest) ==
  [magicNumber |-> o.magicNumber, packetSize |-> o.packetSize, version |-> o.version,
   status |-> state, avail |-> avail, result |-> result, checkedMagic |-> checked,
   availAtTest |-> atTest]

\* The bytes read from "in >> version" on for a packet that is accepted: those
\* of the packet, and the fields of an empty packet at least
PacketBytes(size) == IF size > EmptyPacketSize THEN size ELSE EmptyPacketSize

\* SimConnectData::read from "in >> version" on: the version is tested, the
\* rest of the packet is read
ScReadPacket(o, avail, v, checked) ==
  LET w == ReadWord(avail, v)
      o3 == [o EXCEPT !.version = w.value]
  IN IF w.value # DATA_VERSION
     THEN ScReturn(o3, w.avail, FALSE, "VERSION_MISMATCH", checked, avail)
     ELSE ScReturn(o3, IF avail > PacketBytes(o.packetSize)
                       THEN avail - PacketBytes(o.packetSize) ELSE 0,
                   TRUE, "OK", checked, avail)

\* SimConnectData::read from "if(packetSize == 0)" on: the size is read once,
\* and the call waits until the whole packet is available
ScReadSize(o, avail, s, v, checked) ==
  IF o.packetSize = 0 /\ avail < WordSize
  THEN ScReturn(o, avail, FALSE, "OK", checked, avail)
  ELSE LET o2 == IF o.packetSize = 0 THEN [o EXCEPT !.packetSize = s] ELSE o
           left == IF o.packetSize = 0 THEN avail - WordSize ELSE avail
       IN IF left < o2.packetSize
          THEN ScReturn(o2, left, FALSE, "OK", checked, left)
          ELSE ScReadPacket(o2, left, v, checked)

\* SimConnectData::read: status = OK, then the magic number is read and tested
\* if(magicNumber == 0), the packet size is read if(packetSize == 0), and the
\* packet is read when bytesAvailable() is not below packetSize; m, s and v are
\* the next words of the device
ScReadMagic(o, avail, m, s, v) ==
  IF o.magicNumber = 0
  THEN IF avail < WordSize
       THEN ScReturn(o, avail, FALSE, "OK", FALSE, avail)
       ELSE IF m # MAGIC_NUMBER_DATA
       THEN ScReturn([o EXCEPT !.magicNumber = m], avail - WordSize, FALSE,
                     "INVALID_MAGIC_NUMBER", TRUE, avail - WordSize)
       ELSE ScReadSize([o EXCEPT !.magicNumber = m], avail - WordSize, s, v, TRUE)
  ELSE ScReadSize(o, avail, s, v, FALSE)

\* The words a call can read at a place of the stream: any word if it reads
\* there, and nothing to choose if it does not
WordsRead(reads) == IF reads THEN Words ELSE {0}

NoScCall == [called |-> FALSE, result |-> FALSE, checkedMagic |-> FALSE, availAtTest |-> 0,
             unchecked |-> FALSE]

\* SimConnectData::read(ioDevice), one call on the object
ScRead ==
  /\ scCalls < MaxScCalls
  /\ scCalls' = scCalls + 1
  /\ \E m \in WordsRead(magicNumber = 0), s \in WordsRead(packetSize = 0), v \in Words :
       LET r == ScReadMagic([magicNumber |-> magicNumber, packetSize |-> packetSize,
                             version |-> version], bytesAvailable, m, s, v)
       IN /\ magicNumber' = r.magicNumber
          /\ packetSize' = r.packetSize
          /\ version' = r.version
          /\ status' = r.status
          /\ bytesAvailable' = r.avail
          /\ scLast' = [called |-> TRUE, result |-> r.result, checkedMagic |-> r.checkedMagic,
                        availAtTest |-> r.availAtTest,
                        unchecked |-> IF r.status = "INVALID_MAGIC_NUMBER" THEN TRUE
                                      ELSE IF r.checkedMagic THEN FALSE
                                      ELSE scLast.unchecked]
  /\ UNCHANGED <<bglVars, navVars, ilsVars, pkVars, xpVars, utilVars>>

\* The peer has sent more bytes: a chunk arrives at the device
ScArrive ==
  /\ \E n \in Chunks :
       /\ bytesAvailable + n <= MaxAvailable
       /\ bytesAvailable' = bytesAvailable + n
  /\ UNCHANGED <<bglVars, navVars, ilsVars, pkVars, xpVars, utilVars, magicNumber, packetSize,
                 version, status, scCalls, scLast>>

\* A new SimConnectData and a device with no bytes yet
ScInit ==
  /\ magicNumber = 0
  /\ packetSize = 0
  /\ version = 0
  /\ status = "OK"
  /\ bytesAvailable = 0
  /\ scCalls = 0
  /\ scLast = NoScCall

ScIdle == ScInit

ScNext ==
  \/ ScRead
  \/ ScArrive

\* ========================================================================
\* The specifications
BglIdle == BglInit /\ opts = [sim |-> "FSX", included |-> ObjectTypes, navigraph |-> FALSE,
                              supported |-> {}]

NavIdleOptions ==
  [sim |-> "FSX", included |-> NavObjectTypes, areas |-> 0, deduplicate |-> FALSE,
   resolveAirways |-> FALSE, createRouteTables |-> FALSE, databaseReport |-> FALSE,
   autocommit |-> FALSE, collectErrors |-> FALSE]

\* BglFile reads files; the driver and the ILS writer are not running
InitBgl == BglInit /\ NavIdle /\ navOpts = NavIdleOptions /\ IlsIdle /\ PkIdle /\ XpIdle /\ UtilIdle /\ ScIdle

SpecBgl == InitBgl /\ [][BglNext]_vars

\* The same run of a thread that is scheduled as long as it has a step to take
SpecBglFair == InitBgl /\ [][BglNext]_vars /\ WF_vars(BglNext)

\* NavDatabase::create runs once; the options are those of the caller
InitNav == NavInit /\ BglIdle /\ IlsIdle /\ PkIdle /\ XpIdle /\ UtilIdle /\ ScIdle

SpecNav == InitNav /\ [][NavNext]_vars

\* IlsWriter::writeObject is called for a sequence of ILS
InitIls == IlsInit /\ BglIdle /\ NavIdle /\ navOpts = NavIdleOptions /\ PkIdle /\ XpIdle /\ UtilIdle /\ ScIdle

SpecIls == InitIls /\ [][IlsNext]_vars

\* The Parking constructor or one of its string functions is called once
InitParking ==
  PkInit /\ BglIdle /\ NavIdle /\ navOpts = NavIdleOptions /\ IlsIdle /\ XpIdle /\ UtilIdle /\ ScIdle

SpecParking == InitParking /\ [][PkNext]_vars

\* One run writes rows with its IlsWriter or with its X-Plane readers
InitIds ==
  IlsInit /\ XpInit /\ BglIdle /\ NavIdle /\ navOpts = NavIdleOptions /\ PkIdle /\ UtilIdle /\ ScIdle

SpecIds == InitIds /\ [][IdsNext]_vars

\* One file of an X-Plane run given to its reader line by line
InitXp ==
  XpInit /\ BglIdle /\ NavIdle /\ navOpts = NavIdleOptions /\ IlsIdle /\ PkIdle /\ UtilIdle /\ ScIdle

SpecXp == InitXp /\ [][XpNext]_vars

\* One call of a function whose result depends on its arguments only
InitUtil ==
  UtilInit /\ BglIdle /\ NavIdle /\ navOpts = NavIdleOptions /\ IlsIdle /\ PkIdle /\ XpIdle /\ ScIdle

SpecUtil == InitUtil /\ [][UtilNext]_vars

\* One SimConnectData object and the device it reads from
InitSc ==
  ScInit /\ BglIdle /\ NavIdle /\ navOpts = NavIdleOptions /\ IlsIdle /\ PkIdle /\ XpIdle
  /\ UtilIdle

SpecSc == InitSc /\ [][ScNext]_vars

\* ------------------------------------------------------------------------
\* Properties of BglFile

\* Number of airports with the given ident that records of airport sections
\* have put into the airport list
IdentOccurrences(id) ==
  Cardinality({i \in DOMAIN airports : airports[i].ident = id /\ ~airports[i].alt})

\* The running readFile call got past the size test and opened its file
FileOpened == fileNo > 0 /\ file.size >= HEADER_SIZE /\ file.canOpen

\* The section directory the header declares fits into the file
DirectoryFits == HEADER_SIZE + SECTION_SIZE * file.numSections <= file.size

\* C1 as stated: after every dispatched record the stream position is the
\* record's start plus its declared size, whatever the declared size is
C1_ForwardProgressAnySize ==
  (bpc \in {"records", "done"} /\ lastRec.set) => pos = lastRec.start + lastRec.size

\* C1: after a dispatched record the stream position is the record's start
\* plus its declared size when the declared size is less than the file size;
\* otherwise the position stays where the record's parser stopped
C1_ForwardProgress ==
  (bpc \in {"records", "done"} /\ lastRec.set) =>
    IF lastRec.size < fileSize
    THEN pos = lastRec.start + lastRec.size
    ELSE pos = lastRec.end

\* C1 witness: a record whose parser consumed less than its declared size
\* was dispatched and the stream was moved to the record's end
C1_Witness ==
  /\ bpc = "records"
  /\ lastRec.set
  /\ lastRec.size < fileSize
  /\ lastRec.end < lastRec.start + lastRec.size
  /\ pos = lastRec.start + lastRec.size

\* C2 as stated: reading has failed no later than when the fourth airport
\* record with the same ident was read
C2_AbortByFourth ==
  \A id \in Idents :
    IdentOccurrences(id) >= DUPLICATE_LIMIT + 1 => (bpc = "thrown" /\ exception = "duplicate")

\* C2: reading fails with the duplicate error exactly when the fifth airport
\* record with the same ident has been read; no ident gets beyond five
C2_DuplicateAbort ==
  /\ \A id \in Idents : IdentOccurrences(id) <= DUPLICATE_LIMIT + 2
  /\ \A id \in Idents :
       IdentOccurrences(id) = DUPLICATE_LIMIT + 2 => (bpc = "thrown" /\ exception = "duplicate")
  /\ exception = "duplicate" =>
       /\ bpc = "thrown"
       /\ \E id \in Idents : /\ IdentOccurrences(id) = DUPLICATE_LIMIT + 2
                             /\ airportIdentCount[id] = DUPLICATE_LIMIT + 1

\* C2 witness: reading of a file has ended with the duplicate error
C2_Witness == bpc = "thrown" /\ exception = "duplicate"

\* C3 as stated: when a file with repeated idents was read, its airport
\* collection holds one airport per distinct ident
C3_OnePerIdent ==
  bpc = "done" =>
    \A id \in Idents : Cardinality({i \in DOMAIN airports : airports[i].ident = id}) <= 1

\* C3: while reading has not failed, the airport collection holds every
\* airport record that was read, repeated idents included, up to four per ident
C3_DuplicatesKept ==
  bpc \in {"records", "done"} =>
    \A id \in Idents : /\ IdentOccurrences(id) = airportIdentCount[id]
                       /\ IdentOccurrences(id) <= DUPLICATE_LIMIT + 1

\* C3 witness: a file was read to its end without error and one ident is in
\* its airport collection two to four times
C3_Witness ==
  /\ bpc = "done"
  /\ exception = "none"
  /\ \E id \in Idents : IdentOccurrences(id) \in 2..(DUPLICATE_LIMIT + 1)

\* C9: for a file smaller than the header or with a wrong magic number no
\* section, subsection or record is read, no error is raised and the file
\* has no content
C9_FileLevelSkip ==
  (fileNo > 0 /\ (\/ file.size < HEADER_SIZE
                  \/ file.magic1 # MAGIC_NUMBER1
                  \/ file.magic2 # MAGIC_NUMBER2)) =>
    /\ bpc = "done"
    /\ exception = "none"
    /\ eofRead = "none"
    /\ secRead = 0
    /\ sections = <<>>
    /\ subsections = <<>>
    /\ ~lastRec.set
    /\ ~hasContent

\* C9 witness: the second file given to the reader was opened and has a
\* wrong second magic number
C9_Witness ==
  /\ fileNo = 2
  /\ FileOpened
  /\ file.magic1 = MAGIC_NUMBER1
  /\ file.magic2 # MAGIC_NUMBER2
  /\ bpc = "done"

\* C10 as stated: a section count that does not fit the file size makes the
\* header invalid, and no section entry is read at or beyond the end of file
C10_SectionCountChecked ==
  /\ (FileOpened /\ ~DirectoryFits) => ~header.valid
  /\ eofRead # "section"

\* C10: the header is valid exactly when both magic numbers match, whatever
\* section count it declares; a section entry is read beyond the end of the
\* file exactly when the declared directory does not fit into the file
C10_SectionCountUnchecked ==
  /\ FileOpened =>
       /\ header.valid = (file.magic1 = MAGIC_NUMBER1 /\ file.magic2 = MAGIC_NUMBER2)
       /\ header.valid => header.numSections = file.numSections
  /\ eofRead = "section" => (FileOpened /\ header.valid /\ ~DirectoryFits)
  /\ (FileOpened /\ header.valid /\ ~DirectoryFits /\ bpc # "sections") =>
       eofRead = "section"

\* C10 witness: the read of a section entry went beyond the end of the file
C10_Witness ==
  /\ eofRead = "section"
  /\ header.valid
  /\ secRead < header.numSections

\* ------------------------------------------------------------------------
\* Properties of NavDatabase

\* C4 as stated: when create has returned with aborted set, none of the
\* changes of the run is in the store
C4_NoPartialDatabase ==
  (navPhase = "returned" /\ aborted) => (committed = {} /\ pending = {})

\* C5: once a handler call or a load step has returned the aborted signal, no
\* further handler call, scenery area, script, resolver or report step is
\* executed, nothing more is committed and reportFinish is not called; create
\* then returns after exactly one rollback
C5_AbortHonoured ==
  /\ [][abortSignalled => (/\ log' = log
                           /\ committed' = committed
                           /\ finishCalled' = finishCalled
                           /\ navPhase' \in {"internalReturned", "returned"})]_vars
  /\ [](abortSignalled => (aborted /\ ~finishCalled /\ navPhase # "running"))
  /\ []((navPhase = "returned" /\ abortSignalled) => rollbacks = 1)
  /\ []((navPhase = "returned" /\ ~abortSignalled) => (rollbacks = 0 /\ finishCalled))

\* C5 witness: a run aborted during the post-load scripts has returned
C5_Witness ==
  /\ navPhase = "returned"
  /\ abortSignalled
  /\ rollbacks = 1
  /\ ~finishCalled
  /\ "create_indexes_post_load" \in committed

\* The post-load passes, by the names they have in the log
PostLoadPasses ==
  {"create_indexes_post_load", "delete_duplicates", "AirwayResolver", "update_vor",
   "update_wp_ids", "update_approaches", "update_ils_ids", "update_num_ils",
   "populate_nav_search", "populate_route_node", "RouteEdgeWriter", "populate_route_edge",
   "finish_schema", "metadata_final"}

IsPostLoadPass(e) == e \in PostLoadPasses

\* The steps of the loading phase that insert records
IsLoadingInsert(e) ==
  e \in {"writeBasepathScenery", "compileMagDeclBgl", "compileCustomApt",
         "compileCustomGlobalApt", "compileDefaultApt", "compileEarthFix", "compileUserFix",
         "compileEarthNav", "compileUserNav", "compileEarthAirway", "prepare_airway",
         "postProcessEarthAirway", "compileCifp", "readMagDeclBgl"}
        \cup {"writeSceneryArea " \o ToString(n) : n \in 1..MaxAreas}

\* The order of the post-load passes as the specification gives it
StatedPostLoadOrder(o) ==
  <<"create_indexes_post_load">>
  \o (IF o.deduplicate THEN <<"delete_duplicates">> ELSE << >>)
  \o (IF o.resolveAirways THEN <<"AirwayResolver">> ELSE << >>)
  \o (IF o.sim # "XPLANE11" THEN <<"update_vor">> ELSE << >>)
  \o <<"update_wp_ids", "update_approaches">>
  \o (IF o.sim # "XPLANE11" THEN <<"update_ils_ids">> ELSE << >>)
  \o <<"update_num_ils", "populate_nav_search", "populate_route_node">>
  \o (IF o.createRouteTables THEN <<"RouteEdgeWriter">> ELSE << >>)
  \o <<"populate_route_edge", "finish_schema", "metadata_final">>

\* C6: the post-load passes executed so far are an initial part of the stated
\* order (each at most once, optional passes only when enabled), a run that
\* reaches reportFinish has executed all of them, and no insert of the
\* loading phase follows a post-load pass
C6_PostLoadOrder ==
  LET passes == SelectSeq(log, IsPostLoadPass)
      stated == StatedPostLoadOrder(navOpts)
  IN /\ Len(passes) <= Len(stated)
     /\ passes = SubSeq(stated, 1, Len(passes))
     /\ finishCalled => passes = stated
     /\ \A i, j \in DOMAIN log :
          (i < j /\ IsPostLoadPass(log[i])) => ~IsLoadingInsert(log[j])

\* C6 witness: a run with every optional pass enabled and the highest number
\* of scenery areas has finished without abort
C6_Witness ==
  /\ navPhase = "returned"
  /\ finishCalled
  /\ ~abortSignalled
  /\ navOpts.sim = "FSX"
  /\ navOpts.areas = MaxAreas
  /\ navOpts.deduplicate /\ navOpts.resolveAirways /\ navOpts.createRouteTables
  /\ Len(SelectSeq(log, IsPostLoadPass)) = 14

\* ------------------------------------------------------------------------
\* Properties of IlsWriter

\* C7 as stated: an ILS with an ident is written if and only if a valid runway
\* name is available, from the localizer or from the facility name, or
\* incomplete mode is enabled
C7_EmissionRule ==
  (ilsLast.called /\ ilsLast.ident # EmptyString) =>
    (ilsLast.written <=>
       \/ ilsOpts.incomplete
       \/ ilsLast.hasLoc /\ runwayNameValid(trimmed(ilsLast.runwayName))
       \/ runwayNameValid(ExtractRunwayName(trimmed(ilsLast.name))))

\* C8 as stated: for every simulator an ILS with an empty localizer runway
\* field and the name "ILS CAT III RWY 05L" gets the runway name "05L" bound
\* and is written
C8_RunwayRecovery ==
  (/\ ilsLast.called
   /\ ilsLast.ident # EmptyString
   /\ ilsLast.hasLoc
   /\ ilsLast.runwayName = EmptyString
   /\ ilsLast.name = NameIlsCat3Rwy05L) =>
    (/\ ilsLast.written
     /\ ilsLast.bound = <<"0", "5", "L">>
     /\ ilsRows # << >>
     /\ ilsRows[Len(ilsRows)].loc_runway_name = <<"0", "5", "L">>)

\* ------------------------------------------------------------------------
\* Properties of the boundary scan

\* The lowest number of a non-empty set of numbers
SetMin(S) == CHOOSE m \in S : \A x \in S : m <= x

\* The offset1 and offset2 values of all entries of an offset table
AllOffsets(table) ==
  {table[i].offset1 : i \in DOMAIN table} \cup {table[i].offset2 : i \in DOMAIN table}

\* The offset1 and offset2 values of the entries that have a tree flag
FlaggedOffsets(table) ==
  LET flagged == {i \in DOMAIN table : table[i].treeFlag > 0}
  IN {table[i].offset1 : i \in flagged} \cup {table[i].offset2 : i \in flagged}

\* C11 as stated: the record scan of a boundary section starts at the lowest
\* of all offset1 and offset2 values of the section's offset table
C11_MinimumOfAllOffsets ==
  scanStart.set => pos = SetMin(AllOffsets(scanStart.table))

\* C11: the record scan of a boundary section starts at the lowest offset1 or
\* offset2 of the entries of the offset table that have a non-zero tree flag,
\* at the highest unsigned value when no entry has one; for the table
\* {(0x300, 0x400, 1), (0x200, 0x280, 1)} that is 0x200
C11_ScanStart ==
  scanStart.set =>
    /\ pos = SetMin(FlaggedOffsets(scanStart.table) \cup {UINT_MAX})
    /\ scanStart.table = BoundaryTableExample => pos = 512

\* C11 witness: the offset table of the example has been read and the scan is
\* about to start at 0x200
C11_Witness ==
  /\ bpc = "boundaryScan"
  /\ scanStart.set
  /\ scanStart.table = BoundaryTableExample
  /\ pos = 512

ExpectedRecords(sub) == IF sub.type = "NAME_LIST" THEN 1 ELSE sub.numDataRecords

\* C13: readRecords enters the collected subsections in order, seeks each to
\* its first-data-record offset and never dispatches more records than the
\* declared count (one for a name list); a subsection it has left, and every
\* subsection once readRecords has returned, got exactly that many; and every
\* collected subsection belongs to a supported section that is neither
\* boundary nor geopol
C13_SubsectionWalk ==
  /\ Len(walked) <= Len(subsections)
  /\ \A i \in DOMAIN walked :
       /\ walked[i].seek = subsections[i].firstDataRecordOffset
       /\ walked[i].n <= ExpectedRecords(subsections[i])
       /\ i < Len(walked) => walked[i].n = ExpectedRecords(subsections[i])
  /\ bpc = "done" =>
       /\ Len(walked) = Len(subsections)
       /\ \A i \in DOMAIN walked : walked[i].n = ExpectedRecords(subsections[i])
  /\ \A i \in DOMAIN subsections :
       /\ subsections[i].type \in SupportedTypes(opts)
       /\ subsections[i].type \notin {"BOUNDARY", "GEOPOL"}

\* C13 witness: readRecords has returned after a name list subsection that
\* declares three records got one and an airport subsection got its two
C13_Witness ==
  /\ bpc = "done"
  /\ Len(walked) = 2
  /\ \E i, j \in DOMAIN subsections :
       /\ subsections[i].type = "NAME_LIST"
       /\ subsections[i].numDataRecords = 3
       /\ walked[i].n = 1
       /\ subsections[j].type = "AIRPORT"
       /\ subsections[j].numDataRecords = 2
       /\ walked[j].n = 2

\* ------------------------------------------------------------------------
\* Properties of the simulator gating in readRecords

C20_PerFileLifecycle ==
  /\ \A l \in CollectorLists : origin[l] \subseteq {fileNo}
  /\ airports # << >> => origin["airports"] = {fileNo}
  /\ \A c \in Categories : collected[c] > 0 => origin[c] = {fileNo}
  /\ sections # << >> => origin["sections"] = {fileNo}
  /\ subsections # << >> => origin["subsections"] = {fileNo}
  /\ (fileNo > 0 /\ ~(FileOpened /\ header.valid)) =>
       (~hasContent /\ sections = << >> /\ subsections = << >>)

\* C20 witness: the collector held records, sections and subsections of the
\* first file when readFile was called for a second file, which it could not
\* open, and holds nothing now
C20_Witness ==
  /\ fileNo = 2
  /\ bpc = "done"
  /\ hadContent
  /\ file.size >= HEADER_SIZE
  /\ ~file.canOpen
  /\ ~hasContent
  /\ sections = << >>
  /\ subsections = << >>

\* ------------------------------------------------------------------------
\* Properties of Parking

\* The constructor has returned
ParkingDecoded == pkPc = "done" /\ pkIn.op = "decode"

\* A string function has returned for the given enumerator
StrReturned(kind, enum) ==
  pkPc = "done" /\ pkIn.op = "toStr" /\ pkIn.kind = kind /\ pkIn.enum = enum

\* Bit i of an unsigned 32-bit value
BitOf(w, i) == IF i < 16 THEN (w.lo \div 2^i) % 2 ELSE (w.hi \div 2^(i - 16)) % 2

\* The number that bits from..to of an unsigned 32-bit value spell
RECURSIVE BitsValue(_, _, _)
BitsValue(w, from, to) ==
  IF from > to THEN 0 ELSE BitOf(w, from) + 2 * BitsValue(w, from + 1, to)

\* The unsigned 32-bit value that has the five fields at their places
FlagsOf(p) ==
  [hi |-> p.number \div 16 + 256 * p.numAirlineCodes,
   lo |-> p.name + 64 * p.pushBack + 256 * p.type + 4096 * (p.number % 16)]

\* C14: the constructor sets name to bits 0-5 of the flags word, pushback to
\* bits 6-7, type to bits 8-11, number to bits 12-23 and the airline code
\* count to bits 24-31, and the five fields put back at their places give the
\* flags word
C14_BitLayout ==
  ParkingDecoded =>
    /\ parking.name = BitsValue(pkIn.flags, 0, 5)
    /\ parking.pushBack = BitsValue(pkIn.flags, 6, 7)
    /\ parking.type = BitsValue(pkIn.flags, 8, 11)
    /\ parking.number = BitsValue(pkIn.flags, 12, 23)
    /\ parking.numAirlineCodes = BitsValue(pkIn.flags, 24, 31)
    /\ FlagsOf(parking) = pkIn.flags

\* C14 witness: a flags word with the highest bit set and different values
\* in all five fields has been decoded
C14_Witness ==
  /\ ParkingDecoded
  /\ pkIn.flags = [hi |-> 32768, lo |-> 7758]
  /\ parking.name = 14
  /\ parking.pushBack = 1
  /\ parking.type = 14
  /\ parking.number = 1
  /\ parking.numAirlineCodes = 128

\* C15 as stated: the flags word 0x02015123 gives name 0x23 with the string
\* "GATE_C", pushback 1 with the string "LEFT", type 5 with the string
\* "RAMP_CARGO", number 21 and two airline codes
C15_ScenarioAsStated ==
  /\ (ParkingDecoded /\ pkIn.flags = FlagsWordExample) =>
       /\ parking.name = 35
       /\ parking.pushBack = 1
       /\ parking.type = 5
       /\ parking.number = 21
       /\ parking.numAirlineCodes = 2
  /\ StrReturned("name", "GATE_C") => pkStr = "GATE_C"
  /\ StrReturned("pushBack", "LEFT") => pkStr = "LEFT"
  /\ StrReturned("type", "RAMP_CARGO") => pkStr = "RAMP_CARGO"

\* C15: the flags word 0x02015123 gives name 0x23, pushback 0, type 1, number
\* 21 and two airline codes; the strings of the name GATE_C, the pushback LEFT
\* and the type RAMP_CARGO are "GC", "L" and "RC"
C15_Scenario ==
  /\ (ParkingDecoded /\ pkIn.flags = FlagsWordExample) =>
       /\ parking.name = 35
       /\ parking.pushBack = 0
       /\ parking.type = 1
       /\ parking.number = 21
       /\ parking.numAirlineCodes = 2
  /\ StrReturned("name", "GATE_C") => pkStr = "GC"
  /\ StrReturned("pushBack", "LEFT") => pkStr = "L"
  /\ StrReturned("type", "RAMP_CARGO") => pkStr = "RC"

\* C15 witness: the flags word 0x02015123 has been decoded
C15_Witness ==
  /\ ParkingDecoded
  /\ pkIn.flags = FlagsWordExample
  /\ parking.number = 21
  /\ Len(pkOps) > 0

\* The stream calls the constructor made behind the airline codes
OpsAfterCodes ==
  LET p == CHOOSE i \in DOMAIN pkOps : pkOps[i].op = "BglPosition"
  IN SubSeq(pkOps, p + parking.numAirlineCodes + 1, Len(pkOps))

\* The constructor skipped 16 bytes between the heading and the position
TeeOffsetSkipped == Len(pkOps) >= 5 /\ pkOps[4] = StreamOp("skip", 16)

\* The constructor read the position directly behind the heading
NoTeeOffset == Len(pkOps) >= 4 /\ pkOps[4] = StreamOp("BglPosition", 0)

\* The stream calls of an MSFS record behind the airline codes
MsfsTail == <<StreamOp("skip", 1), StreamOp("readByte", 0), StreamOp("skip", 18)>>

\* C16 as stated: the 16 bytes are skipped exactly for FSX, P3Dv4, P3Dv5 and
\* MSFS; only for MSFS one byte is skipped, the suffix read and 18 bytes
\* skipped behind the airline codes; for every other structure type nothing
\* is consumed behind the airline codes and the suffix stays unset
C16_NothingBehindCodes ==
  ParkingDecoded =>
    /\ IF pkIn.structureType \in {"STRUCT_FSX", "STRUCT_P3DV4", "STRUCT_P3DV5", "STRUCT_MSFS"}
       THEN TeeOffsetSkipped ELSE NoTeeOffset
    /\ IF pkIn.structureType = "STRUCT_MSFS"
       THEN OpsAfterCodes = MsfsTail /\ parking.suffixSet
       ELSE OpsAfterCodes = << >> /\ ~parking.suffixSet

\* C16: the 16 bytes are skipped exactly for FSX, P3Dv4, P3Dv5 and MSFS;
\* only for MSFS one byte is skipped, the suffix read and 18 bytes skipped
\* behind the airline codes; for P3Dv5 four bytes are skipped there; for FS9,
\* FSX and P3Dv4 nothing is consumed there; the suffix stays unset for every
\* structure type but MSFS
C16_VariantLayout ==
  ParkingDecoded =>
    /\ IF pkIn.structureType \in {"STRUCT_FSX", "STRUCT_P3DV4", "STRUCT_P3DV5", "STRUCT_MSFS"}
       THEN TeeOffsetSkipped ELSE NoTeeOffset
    /\ \A i \in 1..parking.numAirlineCodes :
         pkOps[Len(pkOps) - Len(OpsAfterCodes) - i + 1] = StreamOp("readString", 4)
    /\ OpsAfterCodes =
         (CASE pkIn.structureType = "STRUCT_MSFS" -> MsfsTail
            [] pkIn.structureType = "STRUCT_P3DV5" -> <<StreamOp("skip", 4)>>
            [] OTHER -> << >>)
    /\ parking.suffixSet <=> pkIn.structureType = "STRUCT_MSFS"

\* C16 witness: an MSFS record with two airline codes has been read, the
\* suffix byte 4 included
C16_Witness ==
  /\ ParkingDecoded
  /\ pkIn.structureType = "STRUCT_MSFS"
  /\ parking.numAirlineCodes = 2
  /\ TeeOffsetSkipped
  /\ OpsAfterCodes = MsfsTail
  /\ parking.suffixSet
  /\ parking.suffix = 4

\* ------------------------------------------------------------------------
\* Properties of the error collection of NavDatabase

\* C18 as stated: after create has returned, aborted or not, every bucket of
\* errors->sceneryErrors holds at least one file error or message
C18_NoEmptyBucket ==
  navPhase = "returned" =>
    \A i \in DOMAIN sceneryErrors : sceneryErrors[i].filled


\* The ids of a sequence of rows, in write order
IdsOf(rows, column) == [i \in 1..Len(rows) |-> rows[i][column]]

StrictlyIncreasing(ids) == \A i \in 1..Len(ids), j \in 1..Len(ids) : i < j => ids[i] < ids[j]

\* C19: within a run the ids of the rows written to waypoint by XpFixReader, to
\* airport_msa by XpAirportMsaReader and to ils by IlsWriter are strictly
\* increasing in write order, also when records in between were skipped or
\* dropped; the ids need not be contiguous
C19_StrictlyIncreasingIds ==
  /\ StrictlyIncreasing(IdsOf(waypointRows, "waypoint_id"))
  /\ StrictlyIncreasing(IdsOf(msaRows, "airport_msa_id"))
  /\ StrictlyIncreasing(IdsOf(ilsRows, "ils_id"))

\* Two airport_msa rows were written around a skipped line, and two waypoints
\* around a line that failed after it had taken an id
C19_Witness ==
  /\ Len(waypointRows) = 2
  /\ waypointRows[2].waypoint_id = waypointRows[1].waypoint_id + 2
  /\ Len(msaRows) = 2
  /\ msaRows[1].line = 1
  /\ msaRows[2].line = 3
  /\ msaRows[1].airport_msa_id < msaRows[2].airport_msa_id

\* The three bytes of an ARINC 424 waypoint type: capital letters and blanks
IsArincByte(b) == b = CodeSpace \/ (b >= 65 /\ b <= 90)

\* A decimal string whose value is a valid 3-byte ARINC type with a fourth byte of 0
RepresentsArincType(s) ==
  LET u == toUInt(s)
  IN /\ u.ok
     /\ u.hi \div Byte = 0
     /\ IsArincByte(u.lo % Byte)
     /\ IsArincByte(u.lo \div Byte)
     /\ IsArincByte(u.hi % Byte)

FlagsRoundTripDone == utilArg.fn = "waypointFlags" /\ utilRes.done

\* C21 as stated: every 10-digit decimal string that represents a valid 3-byte
\* ARINC type comes back unchanged from waypointFlagsToXplane(waypointFlagsFromXplane(s))
C21_TenDigitRoundTrip ==
  (FlagsRoundTripDone /\ Len(utilArg.flags) = 10 /\ RepresentsArincType(utilArg.flags))
    => utilRes.flags = utilArg.flags

\* C21: every decimal string without a leading zero that represents a valid
\* 3-byte ARINC type (little endian, fourth byte 0) comes back unchanged from
\* waypointFlagsToXplane(waypointFlagsFromXplane(s)); the three characters in
\* between are the three bytes
C21_FlagsRoundTrip ==
  (FlagsRoundTripDone /\ RepresentsArincType(utilArg.flags) /\ Head(utilArg.flags) # CodeZero)
    => /\ utilRes.flags = utilArg.flags
       /\ Len(utilRes.arincType) = 3

\* The word 2105426 (R and two blanks) went through both functions
C21_Witness ==
  /\ FlagsRoundTripDone
  /\ utilArg.flags = <<50, 49, 48, 53, 52, 50, 54>>
  /\ utilRes.arincType = <<82, 32, 32>>
  /\ utilRes.flags = utilArg.flags


NormalizeDone == utilArg.fn = "normalizeRunway" /\ utilRes.done

\* The parts of a valid runway name: prefix, number, designator, suffix
NameParts(name) ==
  CHOOSE parts \in RunwayPrefixes \X (1..36) \X RunwayDesignators \X RunwaySuffixes :
    name \in { parts[1] \o NumberShort(parts[2]) \o parts[3] \o parts[4],
               parts[1] \o NumberLong(parts[2]) \o parts[3] \o parts[4] }

\* C22 as stated: for the five example names normalizeRunway yields the two
\* digit number, the designator and the suffix T of the input when it had one
C22_SuffixKept ==
  (NormalizeDone /\ utilArg.runway \in RunwayNameExamples)
    => LET parts == NameParts(utilArg.runway)
       IN utilRes.runway = NumberLong(parts[2]) \o parts[3] \o parts[4]

\* C22: for the five example names normalizeRunway yields the two digit number
\* and the designator of the input; the prefix RW and the suffix T are removed
C22_Normalized ==
  (NormalizeDone /\ utilArg.runway \in RunwayNameExamples)
    => LET parts == NameParts(utilArg.runway)
       IN utilRes.runway = NumberLong(parts[2]) \o parts[3]

\* RW01LT was normalized to 01L
C22_Witness ==
  /\ NormalizeDone
  /\ utilArg.runway = <<"R", "W", "0", "1", "L", "T">>
  /\ utilRes.runway = <<"0", "1", "L">>


VariantsDone == utilArg.fn = "runwayNameVariants" /\ utilRes.done

\* A valid runway name: number 1 to 36, optional designator, prefix and suffix
ValidRunwayName(name) ==
  \E parts \in RunwayPrefixes \X (1..36) \X ({<<g>> : g \in Designators} \cup {EmptyString})
               \X RunwaySuffixes :
    name \in { parts[1] \o NumberShort(parts[2]) \o parts[3] \o parts[4],
               parts[1] \o NumberLong(parts[2]) \o parts[3] \o parts[4] }

Elements(list) == {list[i] : i \in DOMAIN list}

\* C23: for every valid runway name, runwayNameVariants(name) contains the
\* name itself, unchanged, and the names of the next higher and the next lower
\* number (36 and 1 are neighbors) with the same prefix, designator and suffix
C23_VariantsContainName ==
  (VariantsDone /\ ValidRunwayName(utilArg.runway))
    => LET parts == NameParts(utilArg.runway)
           up == IF parts[2] < 36 THEN parts[2] + 1 ELSE 1
           down == IF parts[2] > 1 THEN parts[2] - 1 ELSE 36
       IN /\ utilArg.runway \in Elements(utilRes.variants)
          /\ parts[1] \o NumberLong(up) \o parts[3] \o parts[4] \in Elements(utilRes.variants)
          /\ parts[1] \o NumberLong(down) \o parts[3] \o parts[4] \in Elements(utilRes.variants)


SpeedAltDone == utilArg.fn = "speedAndAltitude" /\ utilRes.done

\* The ranges the fields of an item define: a speed of at most four digits
\* (9999 kt, 9999 km/h = 5399 kt) and a flight level of at most three digits
InDefinedRanges(call) ==
  /\ call.speedKts <= (IF call.metricSpeed THEN 5399 ELSE 9999)
  /\ call.altFeet <= 99949

\* |num / den - value| <= tolerance
Within(fraction, value, tolerance) ==
  /\ fraction.num - value * fraction.den <= tolerance * fraction.den
  /\ value * fraction.den - fraction.num <= tolerance * fraction.den

\* C24: for every speed in knots and altitude in feet in the ranges the fields
\* of an item define (four digit speed, three digit flight level) and every
\* choice of metric or non-metric speed and altitude,
\* extractSpeedAndAltitude(createSpeedAndAltitude(s, a)) succeeds with a speed
\* within 1 knot of s and an altitude within 100 ft of a
C24_SpeedAltRoundTrip ==
  (SpeedAltDone /\ InDefinedRanges(utilArg))
    => /\ utilRes.ok
       /\ Within(utilRes.speedKnots, utilArg.speedKts, 1)
       /\ Within(utilRes.altFeet, utilArg.altFeet, 100)

\* 5072 kt and 36307 ft went through both functions as K9393S1107, with the
\* longer nautical mile, and came back rounded
C24_Witness ==
  /\ SpeedAltDone
  /\ utilArg.speedKts = 5072 /\ utilArg.metricSpeed /\ utilArg.nmEighth = 231527
  /\ utilArg.altFeet = 36307 /\ utilArg.metricAlt
  /\ utilRes.ok
  /\ utilRes.speedKnots.num # utilArg.speedKts * utilRes.speedKnots.den
  /\ utilRes.altFeet.num # utilArg.altFeet * utilRes.altFeet.den


CfgDone ==
  /\ utilArg.fn = "readSceneryConfig" /\ utilRes.done
  /\ utilArg.readAddOnXml /\ utilArg.sim \in {"P3D_V3", "P3D_V4"}

\* The components without layer, in the order they were found
NoLayerComponents(components) == SelectSeq([i \in DOMAIN components |-> i],
                                           LAMBDA i : components[i] = NoLayer)

\* C25: after readSceneryConfig for P3D v3/v4 with add-on reading enabled the
\* add-on components without layer are the last areas of the configuration,
\* in the order they were found, each with a layer strictly greater than the
\* layer of every area before it and with an area number no other area has
C25_NoLayerLast ==
  CfgDone =>
    LET areas == utilRes.areas
        last == NoLayerComponents(utilArg.components)
        first == Len(areas) - Len(last)
    IN /\ Len(areas) = Len(utilArg.areas) + Len(utilArg.components)
       /\ \A k \in 1..Len(last) : areas[first + k].component = last[k]
       /\ \A k \in 1..Len(last) :
            /\ \A q \in 1..(first + k - 1) : areas[q].layer < areas[first + k].layer
            /\ \A q \in DOMAIN areas : q # first + k => areas[q].areaNumber # areas[first + k].areaNumber

\* Two components without layer were found before one with the layer 9, next
\* to two areas of scenery.cfg: they are the last two areas
C25_Witness ==
  /\ CfgDone
  /\ utilArg.components = <<NoLayer, NoLayer, 9>>
  /\ Len(utilArg.areas) = 2
  /\ utilRes.areas[3].component = 3
  /\ utilRes.areas[4].component = 1 /\ utilRes.areas[4].layer = 10
  /\ utilRes.areas[5].component = 2 /\ utilRes.areas[5].layer = 11


\* The last line read was malformed: wrong token count, unknown airport or
\* unresolvable center
Malformed ==
  \/ xpLast.reader = "mora" /\ xpLast.input # MoraLineSize
  \/ xpLast.reader = "msa"
       /\ (xpLast.input.short \/ ~xpLast.input.airportKnown \/ ~xpLast.input.centerValid)
  \/ xpLast.reader = "fix" /\ xpLast.input # "none"

\* The last line read is in no table and not among the lines kept
NoRowOfLast ==
  /\ xpLast.reader = "mora" => \A i \in DOMAIN moraLines : moraLines[i] # xpLast.line
  /\ xpLast.reader = "msa" => \A i \in DOMAIN msaRows : msaRows[i].line # xpLast.line
  /\ xpLast.reader = "fix" => \A i \in DOMAIN waypointRows : waypointRows[i].line # xpLast.line

\* The reader of the last line takes the next line of the file
ReadingContinues ==
  /\ (xpLast.reader = "mora" /\ xpMoraLines < MaxXpLines) => ENABLED XpMoraRead
  /\ (xpLast.reader = "msa" /\ xpMsaLines < MaxXpLines) => ENABLED XpMsaRead
  /\ (xpLast.reader = "fix" /\ xpFixLines < MaxXpLines) => ENABLED XpFixRead

\* The malformed lines the readers drop without a word: a MORA line of another
\* size than 32 and an MSA line whose airport is unknown
SilentlyDropped ==
  \/ xpLast.reader = "mora"
  \/ xpLast.reader = "msa" /\ ~xpLast.input.short /\ ~xpLast.input.airportKnown

\* C27 as stated: a malformed line given to the MORA, MSA or fix reader writes
\* no row and produces a warning, and reading continues with the next line
C27_MalformedWarned ==
  Malformed => (NoRowOfLast /\ xpLast.warnings # << >> /\ ReadingContinues)

\* C27: a malformed line given to the MORA, MSA or fix reader writes no row and
\* reading continues with the next line; it produces a warning unless it is a
\* MORA line of wrong token count or an MSA line with an unknown airport,
\* which are dropped without a warning
C27_MalformedSkipped ==
  Malformed => /\ NoRowOfLast
               /\ ReadingContinues
               /\ (xpLast.warnings = << >>) <=> SilentlyDropped

\* The second line of an MSA file had an unknown airport: it left no row and
\* no warning behind the row of the first line
C27_Witness ==
  /\ xpLast.reader = "msa" /\ xpLast.line = 2
  /\ ~xpLast.input.airportKnown
  /\ xpLast.warnings = << >>
  /\ Len(msaRows) = 1 /\ msaRows[1].line = 1


\* A row was written for an MSA line whose airport and center resolve
MsaRowWritten == utilArg.fn = "msaRead" /\ utilRes.done /\ utilRes.read.outcome = "row"

\* The triples of a line that precede the first all-zero triple
RECURSIVE BeforeZero(_)
BeforeZero(triples) ==
  IF triples = << >> \/ Head(triples) = ZeroTriple THEN << >>
  ELSE <<Head(triples)>> \o BeforeZero(Tail(triples))

\* The sectors are those of the triples before the first all-zero triple, in line order
SectorsInLineOrder ==
  LET before == BeforeZero(utilArg.line.triples)
  IN utilRes.read.geo.sectors = [i \in DOMAIN before |-> [brg |-> before[i].brg,
                                                         alt |-> before[i].alt * 100]]

\* C26: for an MSA line whose airport and center resolve, read adds exactly the
\* bearing/altitude triples that precede the first all-zero triple, in line
\* order, and every triple of a written row has the radius stored in the row
C26_SectorsAndRadius ==
  MsaRowWritten =>
    /\ SectorsInLineOrder
    /\ \A i \in DOMAIN utilRes.read.geo.added :
         utilArg.line.triples[utilRes.read.geo.added[i]].r = utilRes.read.geo.radius

\* ------------------------------------------------------------------------
\* Termination of the boundary scan

\* C28: handleBoundaries terminates for every file of finite size: a scan that
\* has started ends, by the end of the file or by an exception of the stream
C28_BoundaryScanTerminates ==
  (bpc = "boundaryScan") ~> (bpc # "boundaryScan")

\* ------------------------------------------------------------------------
\* Use of the X-Plane compiler

\* The calls createInternal makes on xpDataCompiler while loading
XpCompilerSteps ==
  {"writeBasepathScenery", "compileMagDeclBgl", "compileCustomApt", "compileCustomGlobalApt",
   "compileDefaultApt", "compileEarthFix", "compileUserFix", "compileEarthNav",
   "compileUserNav", "compileEarthAirway", "postProcessEarthAirway", "compileCifp"}

\* xpDataCompiler.reset(new XpDataCompiler(...)) is in the X-Plane branch only
XpCompilerCreated == navOpts.sim = "XPLANE11"

LoggedSteps == {log[i] : i \in DOMAIN log}

\* C29: in a run for another simulator than X-Plane no call of the X-Plane
\* compiler is made and the run does not fail on the unset compiler; if it is
\* not aborted, the AIRAC cycle has been set when createInternal returns
C29_NoUnsetLoaderUse ==
  ~XpCompilerCreated =>
    /\ LoggedSteps \cap XpCompilerSteps = {}
    /\ navPhase # "crashed"
    /\ (navPhase = "internalReturned" /\ ~aborted) => "setAiracCycle" \in LoggedSteps

\* ------------------------------------------------------------------------
\* Properties of SimConnectData::read

\* C30: read returns true only when the magic number of the packet equals
\* MAGIC_NUMBER_DATA, its version equals DATA_VERSION and at least packetSize
\* bytes were available; after a call that failed with INVALID_MAGIC_NUMBER no
\* later call accepts data without a magic number read and tested again
C30_PacketAcceptance ==
  (scLast.called /\ scLast.result) =>
    /\ magicNumber = MAGIC_NUMBER_DATA
    /\ version = DATA_VERSION
    /\ scLast.availAtTest >= packetSize
    /\ ~scLast.unchecked

====
